---- MODULE Spec2Model ----
(***************************************************************************)
(* Model of the stemtutorai dialogue router (src/app/fastapi_server.py),   *)
(* its Memory Store (src/app/persistent_memory.py) and the quiz engine     *)
(* (src/quizmaster-service/quizmaster_agent_service.py).                   *)
(*                                                                         *)
(* Python values.  A str is the sequence of its characters (each a         *)
(* one-character string), so "B " is <<"B", " ">> and "" is <<>>.  Fixed   *)
(* texts of the program (fallback replies, prompts) are one-element        *)
(* sequences holding the whole text.  None is the one-element sequence     *)
(* <<"None">>; no text of the model is that sequence.                      *)
(***************************************************************************)
EXTENDS Integers, Sequences, FiniteSets, TLC

VARIABLES
    quiz_state,             \* the process-wide QuizState of the quiz service
    ALL_STATIC_QUESTIONS,   \* the question pool loaded at startup
    quiz_ret,               \* outcome of the last quiz-service operation
    quiz_log,               \* history of the quiz in progress: valid answers given,
                            \* answers that matched; whether the last call replaced
                            \* an active quiz
    mem,                    \* Memory Store: per user, state document and messages
    turns,                  \* the /tutor requests in flight: locals and position
    extract_events,         \* the events handed to extract_final_reply
    extract_ret,            \* what that call of extract_final_reply returned
    mem_log,                \* history of the direct Memory Store calls: the last
                            \* call, and per user the arguments of the last
                            \* save_state
    local_store             \* _local_store of the in-memory fallback, given the
                            \* same direct calls as the document store

vars == <<quiz_state, ALL_STATIC_QUESTIONS, quiz_ret, quiz_log, mem, turns,
          extract_events, extract_ret, mem_log, local_store>>

quizVars == <<quiz_state, ALL_STATIC_QUESTIONS, quiz_ret, quiz_log>>
routerVars == <<mem, turns>>
extractVars == <<extract_events, extract_ret>>

----------------------------------------------------------------------------
(* Python built-ins used by the code *)

None == <<"None">>

Truthy(x) == x # None /\ x # <<>>

IsSpace(c) == c = " "

LowerChar(c) ==
    CASE c = "A" -> "a" [] c = "B" -> "b" [] c = "C" -> "c" [] c = "D" -> "d"
      [] c = "E" -> "e" [] c = "M" -> "m" [] c = "S" -> "s"
      [] OTHER -> c

UpperChar(c) ==
    CASE c = "a" -> "A" [] c = "b" -> "B" [] c = "c" -> "C" [] c = "d" -> "D"
      [] c = "e" -> "E" [] c = "m" -> "M" [] c = "s" -> "S"
      [] OTHER -> c

Lower(s) == [i \in 1..Len(s) |-> LowerChar(s[i])]

Upper(s) == [i \in 1..Len(s) |-> UpperChar(s[i])]

SetMin(S) == CHOOSE x \in S : \A y \in S : x <= y

SetMax(S) == CHOOSE x \in S : \A y \in S : x >= y

Strip(s) ==
    LET keep == {i \in 1..Len(s) : ~IsSpace(s[i])}
    IN  IF keep = {} THEN <<>> ELSE SubSeq(s, SetMin(keep), SetMax(keep))

\* Python's  a in b  for two strs: a is a contiguous part of b
IsSubstr(a, b) ==
    \E i \in 0..(Len(b) - Len(a)) : SubSeq(b, i + 1, i + Len(a)) = a

\* Python's  xs[:n]  for n >= 0
Take(xs, n) == SubSeq(xs, 1, IF n < Len(xs) THEN n ELSE Len(xs))

SeqFilter(xs, Keep(_)) == SelectSeq(xs, Keep)

SeqMap(xs, F(_)) == [i \in 1..Len(xs) |-> F(xs[i])]

Range(xs) == {xs[i] : i \in 1..Len(xs)}

----------------------------------------------------------------------------
(* Quiz engine: src/quizmaster-service/quizmaster_agent_service.py *)

ABCD == <<"A", "B", "C", "D">>

\* Variant: E is taken for an answer too
AnswerLettersWithE == {<<"A">>, <<"B">>, <<"C">>, <<"D">>, <<"E">>}

AnswerLetters == {<<"A">>, <<"B">>, <<"C">>, <<"D">>}

\* QuizState(): the dataclass defaults
InitialQuizState ==
    [active |-> FALSE, topic |-> None, difficulty |-> <<"easy">>,
     total_questions |-> 5, current_index |-> 0,
     current_correct_option |-> None, score |-> 0, questions_list |-> <<>>]

\* _normalize_question: at most four options, the declared answer kept as
\* written when its stripped upper-case form passes  in "ABCD"
NormalizeQuestion(raw_q) ==
    [question |-> raw_q.question,
     options |-> Take(raw_q.options, 4),
     correct_option |->
        IF raw_q.answer # None /\ IsSubstr(Upper(Strip(raw_q.answer)), ABCD)
        THEN raw_q.answer ELSE None]

\* _format_mcq reads opts['A'] .. opts['D']: a KeyError unless all four exist
FormatRaises(qdata) == Len(qdata.options) < 4

\* A return value or raised exception of start_quiz / answer_question.
\* kind: "none" | "unavailable" | "no_topic_match" | "no_valid" | "question"
\*       | "no_active" | "reprompt" | "completed" | "raise"
\* feedback: "" | "correct" | "incorrect"; called: the collaborators invoked
Ret(op, kind, feedback, index, question, score, total, called) ==
    [op |-> op, kind |-> kind, feedback |-> feedback, index |-> index,
     question |-> question, score |-> score, total |-> total, called |-> called]

NoRet == Ret("none", "none", "", 0, <<>>, 0, 0, {})

\* q.get("subject", "") and q.get("topic", "") of a raw record
SubjectOf(q) == IF q.subject = None THEN <<>> ELSE q.subject

TopicOf(q) == IF q.topic = None THEN <<>> ELSE q.topic

\* _get_available_data(questions)["subjects"]
AvailableSubjects(pool) ==
    {Lower(q.subject) : q \in {r \in Range(pool) : Truthy(r.subject)}}

CleanInput(topic) == Lower(Strip(topic))

IsSubjectOnly(pool, topic) == CleanInput(topic) \in AvailableSubjects(pool)

\* questions_to_filter: the candidate pool handed to the ranking call
QuestionsToFilter(pool, topic) ==
    IF IsSubjectOnly(pool, topic)
    THEN SelectSeq(pool, LAMBDA q : Lower(SubjectOf(q)) = CleanInput(topic))
    ELSE pool

\* Lines 146-173: filtered_questions, or the early return / the exception.
\* rank is the outcome of the ranking call: kind "error" (the call or
\* json.loads raised), "list" (a JSON list of records, in items) or
\* "not_records" (any other JSON value); sample is what random.sample drew.
Selection(pool, topic, n, rank, sample) ==
    LET clean == CleanInput(topic)
        topic_match == SelectSeq(pool, LAMBDA q : IsSubstr(clean, Lower(TopicOf(q))))
    IN  IF rank.kind = "list" THEN [sel |-> "list", items |-> rank.items]
        ELSE IF rank.kind = "not_records" THEN [sel |-> "raise", items |-> <<>>]
        ELSE IF clean # <<>> /\ ~IsSubjectOnly(pool, topic)
             THEN IF topic_match # <<>>
                  THEN [sel |-> "list", items |-> Take(topic_match, n)]
                  ELSE [sel |-> "return", items |-> <<>>]
        ELSE IF IsSubjectOnly(pool, topic)
             THEN [sel |-> "list", items |-> Take(QuestionsToFilter(pool, topic), n)]
        ELSE [sel |-> "list", items |-> sample]

\* Variant: the questions without a valid answer are kept
NormalizedQuestionsKeepAll(items) == SeqMap(items, NormalizeQuestion)

\* Lines 175-176: normalize, keep the questions with a truthy correct_option
NormalizedQuestions(items) ==
    SelectSeq(SeqMap(items, NormalizeQuestion), LAMBDA q : Truthy(q.correct_option))

\* Variant: the pool is never found empty
PoolAlwaysAvailable(pool) == FALSE

\* Line 113: not ALL_STATIC_QUESTIONS
PoolUnavailable(pool) == pool = <<>>

\* Variant: the index of the first question is zero-based
StartedZeroBased(topic, difficulty, normalized) ==
    [active |-> TRUE, topic |-> topic, difficulty |-> difficulty,
     total_questions |-> Len(normalized), current_index |-> 0,
     current_correct_option |-> normalized[1].correct_option,
     score |-> 0, questions_list |-> normalized]

\* Lines 183-192: the QuizState that replaces quiz_state
Started(topic, difficulty, normalized) ==
    [active |-> TRUE, topic |-> topic, difficulty |-> difficulty,
     total_questions |-> Len(normalized), current_index |-> 1,
     current_correct_option |-> normalized[1].correct_option,
     score |-> 0, questions_list |-> normalized]

\* Variant: a quiz in progress is not replaced
StartQuizResultIfIdle(qs, pool, topic, difficulty, n, rank, sample) ==
    IF qs.active
    THEN [state |-> qs,
          ret |-> Ret("start_quiz", "unavailable", "", 0, <<>>, 0, 0, {})]
    ELSE
    IF PoolUnavailable(pool)
    THEN [state |-> qs,
          ret |-> Ret("start_quiz", "unavailable", "", 0, <<>>, 0, 0, {})]
    ELSE
    LET sel == Selection(pool, topic, n, rank, sample)
        called == {"web_search", "rank"}
        normalized == NormalizedQuestions(sel.items)
        qdata == normalized[1]
        started == Started(topic, difficulty, normalized)
    IN  IF sel.sel = "return"
        THEN [state |-> qs,
              ret |-> Ret("start_quiz", "no_topic_match", "", 0, <<>>, 0, 0, called)]
        ELSE IF sel.sel = "raise"
        THEN [state |-> qs,
              ret |-> Ret("start_quiz", "raise", "", 0, <<>>, 0, 0, called)]
        ELSE IF normalized = <<>>
        THEN [state |-> qs,
              ret |-> Ret("start_quiz", "no_valid", "", 0, <<>>, 0, 0, called)]
        ELSE [state |-> started,
              ret |-> IF FormatRaises(qdata)
                      THEN Ret("start_quiz", "raise", "", 0, <<>>, 0, 0, called)
                      ELSE Ret("start_quiz", "question", "", 1, qdata.question,
                               0, 0, called)]

\* start_quiz(topic, difficulty, num_questions): the new state and the outcome
StartQuizResult(qs, pool, topic, difficulty, n, rank, sample) ==
    IF PoolUnavailable(pool)
    THEN [state |-> qs,
          ret |-> Ret("start_quiz", "unavailable", "", 0, <<>>, 0, 0, {})]
    ELSE
    LET sel == Selection(pool, topic, n, rank, sample)
        called == {"web_search", "rank"}
        normalized == NormalizedQuestions(sel.items)
        qdata == normalized[1]
        started == Started(topic, difficulty, normalized)
    IN  IF sel.sel = "return"
        THEN [state |-> qs,
              ret |-> Ret("start_quiz", "no_topic_match", "", 0, <<>>, 0, 0, called)]
        ELSE IF sel.sel = "raise"
        THEN [state |-> qs,
              ret |-> Ret("start_quiz", "raise", "", 0, <<>>, 0, 0, called)]
        ELSE IF normalized = <<>>
        THEN [state |-> qs,
              ret |-> Ret("start_quiz", "no_valid", "", 0, <<>>, 0, 0, called)]
        ELSE [state |-> started,
              ret |-> IF FormatRaises(qdata)
                      THEN Ret("start_quiz", "raise", "", 0, <<>>, 0, 0, called)
                      ELSE Ret("start_quiz", "question", "", 1, qdata.question,
                               0, 0, called)]

\* Variant: every question is scored against option A
CorrectAlwaysA(qs) == <<"A">>

\* Line 211: quiz_state.current_correct_option or "A"
Correct(qs) ==
    IF Truthy(qs.current_correct_option) THEN qs.current_correct_option ELSE <<"A">>

\* Variant: the quiz ends one answer late
QuizCompletedLate(qs) == qs.current_index > qs.total_questions

\* Line 219: the answered question was the last one
QuizCompleted(qs) == qs.current_index >= qs.total_questions

\* Variant: the option of the answered question stays the expected one
NextQuestionKeepsOption(advanced, qdata) == advanced

\* Lines 225-226: the next question's correct option becomes the expected one
NextQuestion(advanced, qdata) ==
    [advanced EXCEPT !.current_correct_option = qdata.correct_option]

\* answer_question(user_answer): the new state and the outcome
AnswerQuestionResult(qs, user_answer) ==
    LET ans == Upper(Strip(user_answer))
        correct == Correct(qs)
        hit == ans = correct
        scored == [qs EXCEPT !.score = IF hit THEN @ + 1 ELSE @]
        feedback == IF hit THEN "correct" ELSE "incorrect"
        advanced == [scored EXCEPT !.current_index = @ + 1]
        in_range == advanced.current_index <= Len(advanced.questions_list)
        qdata == advanced.questions_list[advanced.current_index]
    IN  IF ~qs.active
        THEN [state |-> qs,
              ret |-> Ret("answer_question", "no_active", "", 0, <<>>, 0, 0, {})]
        ELSE IF ans \notin AnswerLetters
        THEN [state |-> qs,
              ret |-> Ret("answer_question", "reprompt", "", 0, <<>>, 0, 0, {})]
        ELSE IF QuizCompleted(scored)
        THEN [state |-> [scored EXCEPT !.active = FALSE],
              ret |-> Ret("answer_question", "completed", feedback, 0, <<>>,
                          scored.score, scored.total_questions, {})]
        ELSE IF ~in_range
        THEN [state |-> advanced,
              ret |-> Ret("answer_question", "raise", feedback, 0, <<>>, 0, 0, {})]
        ELSE [state |-> NextQuestion(advanced, qdata),
              ret |-> IF FormatRaises(qdata)
                      THEN Ret("answer_question", "raise", feedback, 0, <<>>, 0, 0, {})
                      ELSE Ret("answer_question", "question", feedback,
                               advanced.current_index, qdata.question, 0, 0, {})]

\* settings.TEST_TOKEN (line 251)
TEST_TOKEN == <<"secret">>

Digits == <<"0", "1", "2", "3", "4", "5", "6", "7", "8", "9">>

DigitValue(c) == (CHOOSE i \in 1..10 : Digits[i] = c) - 1

\* int(text) of a str raises: after stripping, not a non-empty run of digits
IntRaises(text) ==
    Strip(text) = <<>> \/ \E i \in 1..Len(Strip(text)) : Strip(text)[i] \notin Range(Digits)

RECURSIVE DecimalValue(_)
DecimalValue(ds) ==
    IF ds = <<>> THEN 0
    ELSE 10 * DecimalValue(SubSeq(ds, 1, Len(ds) - 1)) + DigitValue(ds[Len(ds)])

\* int(text) where it does not raise
IntOf(text) == DecimalValue(Strip(text))

\* The query parameters of one GET /run_test (lines 264-268); None: absent
Query(token, difficulty, num_questions, subject, topic) ==
    [token |-> token, difficulty |-> difficulty, num_questions |-> num_questions,
     subject |-> subject, topic |-> topic]

Rejected(status_code, error) == [status_code |-> status_code, error |-> error]

Passed == [status_code |-> 200, error |-> ""]

\* Variant: the parameters are examined before the token
RunTestChecksTokenLast(q) ==
    IF ~Truthy(q.difficulty)
    THEN Rejected(400, "Missing required parameter: difficulty")
    ELSE IF ~Truthy(q.num_questions)
    THEN Rejected(400, "Missing required parameter: num_questions")
    ELSE IF IntRaises(q.num_questions)
    THEN Rejected(400, "num_questions must be an integer")
    ELSE IF ~Truthy(q.subject) /\ ~Truthy(q.topic)
    THEN Rejected(400, "You must provide at least 'subject' or 'topic'.")
    ELSE IF q.token # TEST_TOKEN
    THEN Rejected(401, "Unauthorized")
    ELSE Passed

\* Lines 271-291 of run_test_endpoint: the checks, in the order of the code
RunTestChecks(q) ==
    IF q.token # TEST_TOKEN
    THEN Rejected(401, "Unauthorized")
    ELSE IF ~Truthy(q.difficulty)
    THEN Rejected(400, "Missing required parameter: difficulty")
    ELSE IF ~Truthy(q.num_questions)
    THEN Rejected(400, "Missing required parameter: num_questions")
    ELSE IF IntRaises(q.num_questions)
    THEN Rejected(400, "num_questions must be an integer")
    ELSE IF ~Truthy(q.subject) /\ ~Truthy(q.topic)
    THEN Rejected(400, "You must provide at least 'subject' or 'topic'.")
    ELSE Passed

\* Line 293: topic if topic else subject
ChosenTopic(q) == IF Truthy(q.topic) THEN q.topic ELSE q.subject

\* What run_test_endpoint leaves behind: the request, the response status and
\* the outcome of the start_quiz call it made (NoRet: none was made)
RunTestRet(q, checks, quiz) ==
    [op |-> "run_test", request |-> q, status_code |-> checks.status_code,
     error |-> checks.error, quiz |-> quiz]

\* The question document: records {question, options, answer, subject?, topic?}
Opts4 == << <<"w">>, <<"x">>, <<"y">>, <<"z">> >>

StaticPool ==
    << [question |-> <<"q1">>, options |-> Opts4, answer |-> <<"A">>,
        subject |-> <<"M", "a", "t", "h">>, topic |-> <<"f", "r", "a", "c">>],
       [question |-> <<"q2">>, options |-> Opts4, answer |-> <<"b">>,
        subject |-> <<"m", "a", "t", "h">>, topic |-> <<"a", "l", "g">>],
       [question |-> <<"q3">>, options |-> Opts4, answer |-> <<"E">>,
        subject |-> <<"s", "c", "i">>, topic |-> <<"c", "e", "l", "l">>],
       [question |-> <<"q4">>, options |-> Take(Opts4, 3), answer |-> <<"C">>,
        subject |-> <<"s", "c", "i">>, topic |-> None],
       [question |-> <<"q5">>, options |-> Opts4 \o << <<"v">> >>,
        answer |-> <<"A", "B">>, subject |-> None,
        topic |-> <<"f", "r", "a", "c", "s">>] >>

\* A record the ranking model can return that is no record of the pool
ForeignQuestion ==
    [question |-> <<"q9">>, options |-> Opts4, answer |-> <<"D">>,
     subject |-> None, topic |-> None]

----------------------------------------------------------------------------
(* Memory Store: src/app/persistent_memory.py (documents per user id) *)

LoadLimit == 20

SummarizeLimit == 10

\* What the store holds for a user nobody wrote to: no state document, no messages
EmptyUserMemory ==
    [state |-> [exists |-> FALSE, current_subject |-> None,
                current_topic |-> None, long_term_summary |-> None],
     messages |-> <<>>]

\* xs[-n:]
LastN(xs, n) == IF Len(xs) <= n THEN xs ELSE SubSeq(xs, Len(xs) - n + 1, Len(xs))

\* load_user_state(uid): the state document and the last 20 messages by ts
load_user_state(m, uid) ==
    [current_subject |-> IF m[uid].state.exists THEN m[uid].state.current_subject ELSE None,
     current_topic |-> IF m[uid].state.exists THEN m[uid].state.current_topic ELSE None,
     long_term_summary |->
        IF m[uid].state.exists THEN m[uid].state.long_term_summary ELSE None,
     short_term_messages |->
        SeqMap(LastN(m[uid].messages, LoadLimit),
               LAMBDA d : d)]

dump_user_state(m, uid) == load_user_state(m, uid)

\* Variant: save_state replaces the state document only when there is none
save_state_once(m, uid, subject, topic, long_summary) ==
    IF m[uid].state.exists THEN m
    ELSE [m EXCEPT ![uid].state =
            [exists |-> TRUE, current_subject |-> subject, current_topic |-> topic,
             long_term_summary |-> long_summary]]

\* save_state(uid, subject, topic, long_summary=None): set(..., merge=True)
\* writes all three fields, the summary included
save_state(m, uid, subject, topic, long_summary) ==
    [m EXCEPT ![uid].state =
        [exists |-> TRUE, current_subject |-> subject, current_topic |-> topic,
         long_term_summary |-> long_summary]]

\* Variant: one messages collection for all users
append_message_shared(m, uid, role, text, same_ms) ==
    [u \in DOMAIN m |->
        [m[u] EXCEPT !.messages = Append(@, [role |-> role, text |-> text])]]

\* append_message(uid, role, text): ts = time.time() and the document id is
\* msg_{int(ts * 1000)}.  The messages of a user are kept in ts order, one per
\* document id.  same_ms says that ts falls in the millisecond of the user's
\* latest document: the id is that document's id and set() replaces it;
\* otherwise the id is new and later than every other
append_message(m, uid, role, text, same_ms) ==
    LET doc == [role |-> role, text |-> text]
        msgs == m[uid].messages
    IN  [m EXCEPT ![uid].messages =
            IF same_ms /\ msgs # <<>>
            THEN [msgs EXCEPT ![Len(msgs)] = doc]
            ELSE Append(msgs, doc)]

\* append_message of the in-memory fallback (src/tutor/persistent_memory.py
\* lines 174-179): the message is appended to the user's list
local_append_message(m, uid, role, text) ==
    [m EXCEPT ![uid].messages = Append(@, [role |-> role, text |-> text])]

\* summarize_short_term(uid, limit=10): the literal no-conversation text, or
\* the header followed by one "role: text" line per message, oldest first
summarize_short_term(m, uid) ==
    LET msgs == LastN(m[uid].messages, SummarizeLimit)
    IN  [found |-> msgs # <<>>,
         lines |-> msgs]

\* update_long_term_summary(uid, summary)
update_long_term_summary(m, uid, summary) ==
    [m EXCEPT ![uid].state =
        [@ EXCEPT !.exists = TRUE, !.long_term_summary = summary]]

----------------------------------------------------------------------------
(* Reply extraction and reply parsing: src/app/fastapi_server.py *)

\* Python values as extract_final_reply sees them: None, a str, a list, a dict
\* (its keys are the fields beside type) and an object (its attributes are the
\* fields beside type); an attribute or key that is missing is no field
PyNone == [type |-> "NoneType"]

PyStr(text) == [type |-> "str", value |-> text]

PyList(items) == [type |-> "list", items |-> items]

\* bool(v)
PyTruthy(v) ==
    CASE v.type = "NoneType" -> FALSE
      [] v.type = "str" -> v.value # <<>>
      [] v.type = "list" -> v.items # <<>>
      [] v.type = "dict" -> DOMAIN v # {"type"}
      [] OTHER -> TRUE

\* getattr(obj, name, None) and dict.get(name)
GetAttr(obj, name) == IF name \in DOMAIN obj THEN obj[name] ELSE PyNone

\* An event with actions.stateDelta = {"reply": delta} (no actions when delta
\* is None) and content.parts = one part per text (a part without text for
\* None; no content when parts is None)
Event(delta, parts) ==
    [type |-> "object",
     actions |-> IF delta = None THEN PyNone
                 ELSE [type |-> "object",
                       stateDelta |-> [type |-> "dict", reply |-> PyStr(delta)]],
     content |-> IF parts = None THEN PyNone
                 ELSE [type |-> "object",
                       parts |-> PyList([j \in 1..Len(parts) |->
                                    IF parts[j] = None THEN [type |-> "object"]
                                    ELSE [type |-> "object",
                                          text |-> PyStr(parts[j])]])]]

FirstIndex(xs, Test(_)) ==
    IF \E i \in 1..Len(xs) : Test(xs[i])
    THEN SetMin({i \in 1..Len(xs) : Test(xs[i])}) ELSE 0

\* Lines 57-63: the reply of the event's state delta, None when the event has
\* no truthy actions, no stateDelta dict or no reply key
StateDeltaReply(e) ==
    LET actions == GetAttr(e, "actions")
        state_delta == GetAttr(actions, "stateDelta")
    IN  IF ~PyTruthy(actions) THEN PyNone
        ELSE IF state_delta.type = "dict" THEN GetAttr(state_delta, "reply")
        ELSE PyNone

\* Lines 78-80: the text of a part, None for a falsy part
PartText(p) == IF ~PyTruthy(p) THEN PyNone ELSE GetAttr(p, "text")

\* Lines 69-75: the parts the second pass walks over, none unless content is
\* truthy and content.parts is a non-empty list
PartsOf(e) ==
    LET content == GetAttr(e, "content")
        parts == GetAttr(content, "parts")
    IN  IF ~PyTruthy(content) THEN <<>>
        ELSE IF ~PyTruthy(parts) \/ parts.type # "list" THEN <<>>
        ELSE parts.items

HasText(e) == \E j \in 1..Len(PartsOf(e)) : PyTruthy(PartText(PartsOf(e)[j]))

\* Variant: None when neither pass finds anything
ExtractedOrNone(events) ==
    LET i == FirstIndex(events, LAMBDA e : PyTruthy(StateDeltaReply(e)))
        k == FirstIndex(events, HasText)
    IN  IF i > 0 THEN StateDeltaReply(events[i])
        ELSE IF k > 0
             THEN PartText(PartsOf(events[k])[
                      FirstIndex(PartsOf(events[k]),
                                 LAMBDA p : PyTruthy(PartText(p)))])
        ELSE PyNone

\* Variant: the part texts are looked at before the state deltas
ExtractedTextFirst(events) ==
    LET i == FirstIndex(events, LAMBDA e : PyTruthy(StateDeltaReply(e)))
        k == FirstIndex(events, HasText)
    IN  IF k > 0
        THEN PartText(PartsOf(events[k])[
                 FirstIndex(PartsOf(events[k]), LAMBDA p : PyTruthy(PartText(p)))])
        ELSE IF i > 0 THEN StateDeltaReply(events[i])
        ELSE PyStr(<<>>)

\* Lines 53-85: the value extract_final_reply returns
Extracted(events) ==
    LET i == FirstIndex(events, LAMBDA e : PyTruthy(StateDeltaReply(e)))
        k == FirstIndex(events, HasText)
    IN  IF i > 0 THEN StateDeltaReply(events[i])
        ELSE IF k > 0
             THEN PartText(PartsOf(events[k])[
                      FirstIndex(PartsOf(events[k]),
                                 LAMBDA p : PyTruthy(PartText(p)))])
        ELSE PyStr(<<>>)

\* extract_final_reply(events), as the text the router goes on with
extract_final_reply(events) == Extracted(events).value

\* A classifier's text is a sequence of tokens: blanks, the two code-fence
\* markers (three backquotes followed by json, and three backquotes alone),
\* and tokens standing for the rest of the text.
FenceJson == "<fence>json"

Fence == "<fence>"

\* raw.strip().replace(FenceJson, "").replace(Fence, "").strip()
StripFences(raw) ==
    Strip(SelectSeq(SelectSeq(Strip(raw), LAMBDA c : c # FenceJson),
                    LAMBDA c : c # Fence))

\* The JSON documents the classifiers' texts can hold.  keys: the keys present
\* (of an object); a null value is None; numbers are written as their text.
JsonObject(keys, intent, confidence, subject, topic) ==
    [type |-> "object", keys |-> keys, intent |-> intent,
     confidence |-> confidence, subject |-> subject, topic |-> topic]

IntentJson(name) ==
    JsonObject({"intent", "confidence"}, <<name>>, <<"0.9">>, None, None)

Maths == <<"M", "a", "t", "h", "s">>

Science == <<"S", "c", "i", "e", "n", "c", "e">>

Fractions == <<"f", "r", "a", "c">>

JsonTable ==
    [tok \in {"J:greeting", "J:small_talk", "J:quiz_answer", "J:request_quiz",
              "J:academic_question", "J:off_topic", "J:quiz_answer_forced",
              "J:banana", "J:no_intent", "J:no_confidence", "J:null_intent",
              "J:array", "J:maths", "J:maths_math", "J:maths_fractions",
              "J:fractions", "J:science_null", "J:bad_confidence",
              "J:blank_subject", "J:empty_object"} |->
        CASE tok = "J:greeting" -> IntentJson("greeting")
          [] tok = "J:small_talk" -> IntentJson("small_talk")
          [] tok = "J:quiz_answer" -> IntentJson("quiz_answer")
          [] tok = "J:request_quiz" -> IntentJson("request_quiz")
          [] tok = "J:academic_question" -> IntentJson("academic_question")
          [] tok = "J:off_topic" -> IntentJson("off_topic")
          [] tok = "J:quiz_answer_forced" -> IntentJson("quiz_answer_forced")
          [] tok = "J:banana" -> IntentJson("banana")
          [] tok = "J:no_intent" ->
                JsonObject({"confidence"}, None, <<"0.9">>, None, None)
          [] tok = "J:no_confidence" ->
                JsonObject({"intent"}, <<"greeting">>, None, None, None)
          [] tok = "J:null_intent" ->
                JsonObject({"intent", "confidence"}, None, <<"0.9">>, None, None)
          [] tok = "J:array" ->
                [JsonObject({}, None, None, None, None) EXCEPT !.type = "array"]
          [] tok = "J:maths" ->
                JsonObject({"subject", "confidence"}, None, <<"0.9">>, Maths, None)
          [] tok = "J:maths_math" ->
                JsonObject({"subject", "topic", "confidence"}, None, <<"0.9">>,
                           Maths, <<"M", "a", "t", "h">>)
          [] tok = "J:maths_fractions" ->
                JsonObject({"subject", "topic", "confidence"}, None, <<"0.9">>,
                           Maths, Fractions)
          [] tok = "J:fractions" ->
                JsonObject({"topic"}, None, None, None, Fractions)
          [] tok = "J:science_null" ->
                JsonObject({"subject", "topic", "confidence"}, None, <<"0.9">>,
                           Science, None)
          [] tok = "J:bad_confidence" ->
                JsonObject({"subject", "topic", "confidence"}, None, <<"high">>,
                           Maths, Fractions)
          [] tok = "J:blank_subject" ->
                JsonObject({"subject", "topic"}, None, None, <<>>, <<" ", " ">>)
          [] OTHER -> JsonObject({}, None, None, None, None)]

\* json.loads(text): a value, or ok = FALSE for the JSONDecodeError
JsonLoads(text) ==
    IF Len(text) = 1 /\ text[1] \in DOMAIN JsonTable
    THEN [ok |-> TRUE, value |-> JsonTable[text[1]]]
    ELSE [ok |-> FALSE, value |-> JsonObject({}, None, None, None, None)]

\* parsed.get(key, default); on a value that is no object it raises
Get(parsed, key, default) == IF key \in parsed.keys THEN parsed[key] ELSE default

ZeroConfidence == <<"0.0">>

\* float(x) raises on None and on text that is no number
FloatRaises(x) == x \notin {<<"0.0">>, <<"0.9">>}

----------------------------------------------------------------------------
(* Dialogue router: tutor_endpoint of src/app/fastapi_server.py *)

\* is_quiz_active() of app/quizmaster_tools.py: the mock, "return False"
is_quiz_active == FALSE

\* is_quiz_active_local(): bool(is_quiz_active()), False on an exception
is_quiz_active_local == is_quiz_active

ShortLimit == 3

OffTopic == <<"off_topic">>

QuizAnswerForced == <<"quiz_answer_forced">>

\* Line 198: short_msg in ["a", "b", "c", "d"] or len(short_msg) <= 3
ShortAnswer(msg) ==
    LET short_msg == Strip(Lower(msg))
    IN  short_msg \in {<<"a">>, <<"b">>, <<"c">>, <<"d">>} \/ Len(short_msg) <= ShortLimit

\* Variant: only the single letters are forced
ForcedIntentLettersOnly(quiz_active, msg) ==
    IF quiz_active /\ Strip(Lower(msg)) \in {<<"a">>, <<"b">>, <<"c">>, <<"d">>}
    THEN QuizAnswerForced ELSE None

\* Lines 195-199: forced_intent
ForcedIntent(quiz_active, msg) ==
    IF quiz_active /\ ShortAnswer(msg) THEN QuizAnswerForced ELSE None

\* Variant: a reply that does not parse is taken for a greeting
ParseIntentGreetingDefault(intent_raw) ==
    LET j == JsonLoads(StripFences(intent_raw))
    IN  IF Truthy(intent_raw) /\ j.ok /\ j.value.type = "object"
        THEN [intent |-> Get(j.value, "intent", OffTopic),
              intent_conf |-> Get(j.value, "confidence", ZeroConfidence)]
        ELSE [intent |-> <<"greeting">>, intent_conf |-> ZeroConfidence]

\* Lines 204-222: intent and intent_conf from the classifier's reply
ParseIntent(intent_raw) ==
    LET dflt == [intent |-> OffTopic, intent_conf |-> ZeroConfidence]
        j == JsonLoads(StripFences(intent_raw))
    IN  IF ~Truthy(intent_raw) THEN dflt
        ELSE IF ~j.ok \/ j.value.type # "object" THEN dflt
        ELSE [intent |-> Get(j.value, "intent", OffTopic),
              intent_conf |-> Get(j.value, "confidence", ZeroConfidence)]

\* Variant: the chain ends in the academic branch instead of the fallback
BranchOfAcademicLast(intent) ==
    CASE intent = QuizAnswerForced -> "quiz_answer_forced"
      [] intent = <<"greeting">> -> "greeting"
      [] intent = <<"small_talk">> -> "small_talk"
      [] intent = <<"quiz_answer">> -> "quiz_answer"
      [] intent = <<"request_quiz">> -> "request_quiz"
      [] intent = OffTopic -> "off_topic"
      [] OTHER -> "academic_question"

\* The if-chain of lines 232-472: the branch an intent value selects
BranchOf(intent) ==
    CASE intent = QuizAnswerForced -> "quiz_answer_forced"
      [] intent = <<"greeting">> -> "greeting"
      [] intent = <<"small_talk">> -> "small_talk"
      [] intent = <<"quiz_answer">> -> "quiz_answer"
      [] intent = <<"request_quiz">> -> "request_quiz"
      [] intent = <<"academic_question">> -> "academic_question"
      [] OTHER -> "off_topic"

Branches ==
    {"quiz_answer_forced", "greeting", "small_talk", "quiz_answer",
     "request_quiz", "academic_question", "off_topic"}

\* The text each branch puts in place of an empty reply
Fallback(branch) ==
    CASE branch \in {"quiz_answer_forced", "quiz_answer"} ->
            <<"I tried to check your answer, but something went wrong. Please try again.">>
      [] branch = "greeting" -> <<"Hi there!">>
      [] branch = "small_talk" ->
            <<"That's nice! Now, what would you like to learn today?">>
      [] branch = "request_quiz" ->
            <<"I tried to start a quiz, but something went wrong. Please try rephrasing your request.">>
      [] branch = "academic_question" -> <<"I'm not sure how to respond.">>
      [] OTHER ->
            <<"Let's get back to learning! What subject or topic would you like help with?">>

SayAnything == <<"Say something to begin!">>

\* isinstance(x, str) and x.strip() or None  (lines 341-349)
StripOrNone(x) == IF x = None \/ Strip(x) = <<>> THEN None ELSE Strip(x)

\* Lines 327-349: subject, topic and conf in the request_quiz branch
ParseQuizClassification(cls_raw) ==
    LET dflt == [subject |-> None, topic |-> None, conf |-> ZeroConfidence]
        j == JsonLoads(StripFences(cls_raw))
        subject == Get(j.value, "subject", None)
        topic == Get(j.value, "topic", None)
        conf == Get(j.value, "confidence", ZeroConfidence)
    IN  IF ~Truthy(cls_raw) THEN dflt
        ELSE IF ~j.ok \/ j.value.type # "object" THEN dflt
        ELSE [subject |-> StripOrNone(subject), topic |-> StripOrNone(topic),
              conf |-> IF FloatRaises(conf) THEN ZeroConfidence ELSE conf]

\* Lines 428-437: subject and topic in the academic_question branch, as parsed
ParseAcademicClassification(cls_raw) ==
    LET dflt == [subject |-> None, topic |-> None, conf |-> ZeroConfidence]
        j == JsonLoads(StripFences(cls_raw))
    IN  IF ~Truthy(cls_raw) THEN dflt
        ELSE IF ~j.ok \/ j.value.type # "object" THEN dflt
        ELSE [subject |-> Get(j.value, "subject", None),
              topic |-> Get(j.value, "topic", None), conf |-> ZeroConfidence]

\* classify_subject_and_topic (lines 104-145): the defaults when run_debug_sync
\* is not there, else the reply parsed and coerced as in the request_quiz branch
classify_subject_and_topic(no_sync_runner, cls_events) ==
    IF no_sync_runner
    THEN [subject |-> None, topic |-> None, conf |-> ZeroConfidence]
    ELSE ParseQuizClassification(extract_final_reply(cls_events))

\* generic_subject_words (line 355)
GenericSubjectWords ==
    {<<"m", "a", "t", "h">>, <<"m", "a", "t", "h", "s">>,
     <<"m", "a", "t", "h", "e", "m", "a", "t", "i", "c", "s">>,
     <<"s", "c", "i", "e", "n", "c", "e">>}

\* Variant: a broad subject asks for a narrower topic whatever the topic is
OnlyBroadSubjectAnyTopic(subject, topic) ==
    subject # None /\ Lower(subject) \in GenericSubjectWords

\* Lines 356-359: the user only gave a broad subject
OnlyBroadSubject(subject, topic) ==
    /\ topic = None \/ Lower(topic) \in GenericSubjectWords
    /\ subject # None /\ Lower(subject) \in GenericSubjectWords

\* get_topic_examples / SUPPORTED_SUBJECTS of app/quizmaster_tools.py
get_topic_examples(subject) ==
    IF subject = "math"
    THEN <<"linear equations", "fractions", "probability", "geometry",
           "calculus", "statistics">>
    ELSE IF subject = "science"
    THEN <<"electromagnetism", "photosynthesis", "cellular respiration",
           "Newton's laws", "chemical bonding">>
    ELSE <<>>

MaxExamples == 7

\* Lines 360-375: the reply that asks for a narrower topic
NarrowTopicReply(subject) ==
    LET examples == get_topic_examples(
            IF IsSubstr(<<"m", "a", "t", "h">>, Lower(subject)) THEN "math" ELSE "science")
    IN  subject \o <<" covers a lot of ground! Could you tell me a more specific topic">>
        \o Take(examples, MaxExamples)

\* Lines 385-386 and 397-398: the difficulty and the number of questions the
\* two quiz-start templates name; the other templates name none
PromptParams(kind) ==
    IF kind \in {"start_quiz_topic", "start_quiz_from_message"}
    THEN [difficulty |-> <<"easy">>, num_questions |-> 5]
    ELSE [difficulty |-> None, num_questions |-> 0]

\* A stitched instruction: which template, what is interpolated into it, and
\* the parameters the template's text fixes
Prompt(kind, msg, subject, topic, summary) ==
    [kind |-> kind, msg |-> msg, subject |-> subject, topic |-> topic,
     summary |-> summary, params |-> PromptParams(kind)]

NoSummary == [found |-> FALSE, lines |-> <<>>]

NoPrompt == Prompt("", <<>>, None, None, NoSummary)

NoSnapshot ==
    [current_subject |-> None, current_topic |-> None,
     long_term_summary |-> None, short_term_messages |-> <<>>]

\* The locals of one /tutor request and where it stands:
\*   pc: "idle" (no request yet), "intent_call" (awaiting the Intent Classifier),
\*       "subject_call" (awaiting the Subject/Topic Classifier), "agent_call"
\*       (awaiting the tutoring agent), "returned", "failed" (an exception left
\*       the handler)
\*   trace: the calls made so far, in order
\*   memory_debug: has |-> FALSE for the empty dict of line 188
IdleTurn ==
    [pc |-> "idle", uid |-> <<>>, msg |-> <<>>, quiz_active |-> FALSE,
     forced_intent |-> None, intent |-> OffTopic, intent_conf |-> ZeroConfidence,
     intent_raw |-> <<>>, branch |-> "", subject |-> None, topic |-> None,
     stitched |-> NoPrompt, events |-> <<>>, reply |-> <<>>,
     response |-> <<>>, memory_debug |-> [has |-> FALSE, state |-> NoSnapshot],
     trace |-> <<>>]

\* Variant: the branches that call the agent at once do not store the message
EnterBranchNoAppend(tr, m, same_ms) ==
    LET branch == BranchOf(tr.intent)
    IN  IF branch \in {"academic_question", "request_quiz"}
        THEN [turn |-> [tr EXCEPT !.branch = branch, !.pc = "subject_call",
                           !.trace = @ \o <<"dispatch", "subject_classifier">>],
              mem |-> m]
        ELSE [turn |-> [tr EXCEPT !.branch = branch, !.pc = "agent_call",
                           !.stitched = Prompt(branch, tr.msg, None, None, NoSummary),
                           !.trace = @ \o <<"dispatch", "agent">>],
              mem |-> m]

\* Lines 232-472 up to the branch's first await: the branch is entered with
\* the effective intent; all but academic_question append the user's message
EnterBranch(tr, m, same_ms) ==
    LET branch == BranchOf(tr.intent)
        appended == append_message(m, tr.uid, "user", tr.msg, same_ms)
    IN  IF branch = "academic_question"
        THEN [turn |-> [tr EXCEPT !.branch = branch, !.pc = "subject_call",
                           !.trace = @ \o <<"dispatch", "subject_classifier">>],
              mem |-> m]
        ELSE IF branch = "request_quiz"
        THEN [turn |-> [tr EXCEPT !.branch = branch, !.pc = "subject_call",
                           !.trace = @ \o <<"dispatch", "append_user",
                                            "subject_classifier">>],
              mem |-> appended]
        ELSE [turn |-> [tr EXCEPT !.branch = branch, !.pc = "agent_call",
                           !.stitched = Prompt(branch, tr.msg, None, None, NoSummary),
                           !.trace = @ \o <<"dispatch", "append_user", "agent">>],
              mem |-> appended]

\* Variant: no message counts as empty
EmptyMessageNever(msg) == FALSE

\* Line 187: not msg
EmptyMessage(msg) == msg = <<>>

\* Lines 184-224 up to the first await
RequestResult(tr, m, same_ms, user_id, message, flag) ==
    LET uid == IF Strip(user_id) # <<>> THEN Strip(user_id) ELSE <<"anonymous">>
        msg == Strip(message)
        forced == ForcedIntent(flag, msg)
        begun == [tr EXCEPT !.uid = uid, !.msg = msg]
    IN  IF EmptyMessage(msg)
        THEN [turn |-> [begun EXCEPT !.pc = "returned", !.response = SayAnything],
              mem |-> m]
        ELSE IF forced = None
        THEN [turn |-> [begun EXCEPT !.quiz_active = flag, !.pc = "intent_call",
                           !.trace = <<"intent_classifier">>],
              mem |-> m]
        ELSE EnterBranch([begun EXCEPT !.quiz_active = flag,
                             !.forced_intent = forced, !.intent = forced],
                         m, same_ms)

\* Lines 209-224, then the dispatch: the Intent Classifier returned
IntentResult(tr, m, same_ms, intent_events) ==
    LET intent_raw == extract_final_reply(intent_events)
        parsed == ParseIntent(intent_raw)
    IN  EnterBranch([tr EXCEPT !.intent_raw = intent_raw,
                        !.intent = parsed.intent,
                        !.intent_conf = parsed.intent_conf], m, same_ms)

\* Return of a branch: lines 248-252 and their copies in every branch
Returned(tr, m, same_ms, reply) ==
    LET stored == append_message(m, tr.uid, "assistant", reply, same_ms)
    IN  [turn |-> [tr EXCEPT !.pc = "returned", !.reply = reply,
                      !.response = reply,
                      !.memory_debug = [has |-> TRUE,
                                        state |-> dump_user_state(stored, tr.uid)],
                      !.trace = @ \o <<"append_assistant">>],
         mem |-> stored]

\* Variant: the request_quiz branch saves the state and reads the summary too
UsesMemorySummaryInQuiz(branch) == branch \in {"academic_question", "request_quiz"}

\* Lines 423, 441-445: the branch that saves the classified subject and topic
\* and reads the summary of the recent messages
UsesMemorySummary(branch) == branch = "academic_question"

\* Lines 325-407 and 426-458: the Subject/Topic Classifier returned
SubjectResult(tr, m, same_ms, cls_events) ==
    LET cls_raw == extract_final_reply(cls_events)
        quiz == ParseQuizClassification(cls_raw)
        acad == ParseAcademicClassification(cls_raw)
        saved == save_state(m, tr.uid, acad.subject, acad.topic, None)
        appended == append_message(saved, tr.uid, "user", tr.msg, same_ms)
        summary == summarize_short_term(appended, tr.uid)
    IN  IF UsesMemorySummary(tr.branch)
        THEN [turn |-> [tr EXCEPT !.subject = acad.subject, !.topic = acad.topic,
                           !.stitched = Prompt("academic_question", tr.msg,
                                               acad.subject, acad.topic, summary),
                           !.pc = "agent_call",
                           !.trace = @ \o <<"save_state", "append_user",
                                            "summarize", "agent">>],
              mem |-> appended]
        ELSE IF OnlyBroadSubject(quiz.subject, quiz.topic)
        THEN Returned([tr EXCEPT !.subject = quiz.subject, !.topic = quiz.topic],
                      m, same_ms, NarrowTopicReply(quiz.subject))
        ELSE [turn |-> [tr EXCEPT !.subject = quiz.subject, !.topic = quiz.topic,
                           !.stitched =
                               IF Truthy(quiz.topic)
                               THEN Prompt("start_quiz_topic", tr.msg, None,
                                           quiz.topic, NoSummary)
                               ELSE Prompt("start_quiz_from_message", tr.msg, None,
                                           None, NoSummary),
                           !.pc = "agent_call", !.trace = @ \o <<"agent">>],
              mem |-> m]

\* Variant: the extracted reply is used as it is
ReplyOrNothing(events, branch) == extract_final_reply(events)

\* reply = extract_final_reply(events) or <the branch's fallback>
ReplyOr(events, branch) ==
    IF Truthy(extract_final_reply(events))
    THEN extract_final_reply(events) ELSE Fallback(branch)

\* The tutoring agent returned: the reply is stored and the request returns
AgentResult(tr, m, same_ms, events) ==
    Returned([tr EXCEPT !.events = events], m, same_ms, ReplyOr(events, tr.branch))

\* An exception of an awaited collaborator call: nothing in tutor_endpoint
\* catches it, the request ends with it
RaiseResult(tr) == [tr EXCEPT !.pc = "failed", !.trace = @ \o <<"exception">>]

----------------------------------------------------------------------------
(* Bounds and inputs *)

MaxTurns == 1           \* /tutor requests, which may overlap

MaxNumQuestions == 2    \* largest num_questions passed to start_quiz

TurnIds == 1..MaxTurns

UserIdInputs == {<<" ", "u">>}

Uids == {<<"u">>, <<"anonymous">>}

MessageInputs == {<<" ">>, <<"b", " ">>}

\* Replies of the Intent Classifier: its text arrives as a content part
IntentTexts ==
    {<<>>, <<"not json">>, <<"J:array">>, <<"J:no_intent">>, <<"J:no_confidence">>,
     <<"J:null_intent">>, <<"J:empty_object">>, <<"J:banana">>, <<"J:quiz_answer_forced">>,
     <<"J:greeting">>, <<"J:small_talk">>, <<" ", "J:quiz_answer">>,
     <<FenceJson, "J:request_quiz", Fence>>, <<"J:academic_question">>,
     <<"J:off_topic">>}

IntentEventLists == {<<>>} \cup {<<Event(None, <<txt>>)>> : txt \in IntentTexts}

SubjectTexts ==
    {<<>>, <<"not json">>, <<"J:maths">>, <<"J:maths_math">>,
     <<FenceJson, "J:maths_fractions", Fence>>, <<"J:fractions">>,
     <<"J:science_null">>, <<"J:bad_confidence">>, <<"J:blank_subject">>}

SubjectEventLists == {<<Event(None, <<txt>>)>> : txt \in SubjectTexts}

\* Event lists of a tutoring-agent run: none, an event without reply or text,
\* and part text ahead of a reply in the state delta of a later event
AgentEventLists ==
    {<<>>,
     <<Event(None, <<None, <<>> >>)>>,
     <<Event(None, <<None, <<"text 1">> >>), Event(<<"reply 1">>, None)>>}

\* Values of an event's actions attribute: None, an object without
\* stateDelta, a stateDelta that is no dict, a dict without reply, and dicts
\* with an empty and with non-empty replies
ActionsInputs ==
    {PyNone,
     [type |-> "object"],
     [type |-> "object", stateDelta |-> PyStr(<<"delta">>)],
     [type |-> "object", stateDelta |-> [type |-> "dict"]],
     [type |-> "object", stateDelta |-> [type |-> "dict", reply |-> PyStr(<<>>)]],
     [type |-> "object",
      stateDelta |-> [type |-> "dict", reply |-> PyStr(<<"reply 1">>)]],
     [type |-> "object",
      stateDelta |-> [type |-> "dict", reply |-> PyStr(<<"reply 2">>)]]}

\* Values of an event's content attribute: None, an object without parts,
\* parts that are no list, an empty list, and lists of parts some of which
\* are None, lack text or have an empty text
ContentInputs ==
    {PyNone,
     [type |-> "object"],
     [type |-> "object", parts |-> PyStr(<<"parts">>)],
     [type |-> "object", parts |-> PyList(<<>>)],
     [type |-> "object", parts |-> PyList(<<PyNone, [type |-> "object"]>>)],
     [type |-> "object",
      parts |-> PyList(<<[type |-> "object", text |-> PyStr(<<>>)]>>)],
     [type |-> "object",
      parts |-> PyList(<<[type |-> "object", text |-> PyStr(<<"text 1">>)]>>)],
     [type |-> "object",
      parts |-> PyList(<<[type |-> "object"],
                         [type |-> "object", text |-> PyStr(<<"text 2">>)]>>)]}

\* Events: without attributes, with actions only, with content only, and with
\* both a reply and a text
EventInputs ==
    {[type |-> "object"]}
    \cup {[type |-> "object", actions |-> a] : a \in ActionsInputs}
    \cup {[type |-> "object", content |-> c] : c \in ContentInputs}
    \cup {Event(<<"reply 1">>, <<<<"text 1">>>>), Event(<<>>, <<<<"text 2">>>>)}

MaxEvents == 2

EventLists ==
    UNION {[1..len -> EventInputs] : len \in 0..MaxEvents}

\* No call of extract_final_reply has returned
NotExtracted == [type |-> "not called"]

MaxMessages == 2        \* messages stored by direct store calls, all users

\* Arguments of the direct Memory Store calls
SavedPairs == {<<<<"Math">>, <<"Algebra">>>>, <<<<"Science">>, None>>}

SummaryInputs == {None, <<"summary 1">>}

RoleInputs == {<<"user">>, <<"assistant">>}

TextInputs == {<<"text 1">>}

QuizTopics ==
    {<<>>, <<"M", "a", "t", "h", " ">>, <<"f", "r", "a", "c">>, <<"x">>}

Difficulties == {<<"easy">>, <<"hard">>}

\* The topic and difficulty arguments of the start_quiz calls
StartQuizInputs ==
    {td \in QuizTopics \X Difficulties : (Len(td[1]) <= 1) <=> (td[2] = <<"easy">>)}

AnswerInputs == {<<"A">>, <<" ", "b">>, <<"E">>, <<>>}

\* The query strings of the /run_test requests
RunTestQueries ==
    {Query(token, difficulty, num_questions, subject, topic) :
        token \in {None, TEST_TOKEN, <<"wrong">>},
        difficulty \in {None, <<"easy">>},
        num_questions \in {None, <<"x">>, <<"1", ".", "5">>, <<" ", "1">>, <<"2">>},
        subject \in {None, <<"M", "a", "t", "h", " ">>},
        topic \in {None, <<>>, <<"f", "r", "a", "c">>}}

\* What the ranking call can hand back for a candidate pool
RankOutcomes(candidates, n) ==
    {[kind |-> "error", items |-> <<>>], [kind |-> "not_records", items |-> <<>>]}
    \cup {[kind |-> "list", items |-> xs] :
            xs \in {<<>>, Take(candidates, n), Take(candidates, n + 1),
                    <<ForeignQuestion>>}}

\* random.sample(pool, k): k distinct records in any order
Samples(pool, k) ==
    {[i \in 1..k |-> pool[f[i]]] :
        f \in {g \in [1..k -> 1..Len(pool)] :
                 \A i, j \in 1..k : i # j => g[i] # g[j]}}

SampleSize(pool, n) == IF n < Len(pool) THEN n ELSE Len(pool)

\* random.sample runs only on line 173: the ranking call failed and the topic
\* is empty after cleaning; elsewhere nothing is drawn
SamplesDrawn(pool, topic, n, rank) ==
    IF rank.kind = "error" /\ pool # <<>> /\ CleanInput(topic) = <<>>
    THEN Samples(pool, SampleSize(pool, n)) ELSE {<<>>}

----------------------------------------------------------------------------
(* Actions *)

\* One call of start_quiz, by whichever client of the quiz service
StartQuiz(topic, difficulty, n, rank, sample) ==
    \E r \in {StartQuizResult(quiz_state, ALL_STATIC_QUESTIONS, topic, difficulty,
                             n, rank, sample)} :
    LET replaced == r.ret.kind = "question" \/ r.state # quiz_state
    IN  /\ quiz_state' = r.state
        /\ quiz_ret' = r.ret
        /\ quiz_log' = IF replaced
                       THEN [answers |-> 0, matches |-> 0,
                             overwritten |-> quiz_state.active]
                       ELSE [quiz_log EXCEPT !.overwritten = FALSE]
        /\ UNCHANGED <<ALL_STATIC_QUESTIONS, routerVars, extractVars, mem_log, local_store>>

\* One call of answer_question
AnswerQuestion(user_answer) ==
    \E r \in {AnswerQuestionResult(quiz_state, user_answer)} :
    LET letter == Upper(Strip(user_answer))
        counted == quiz_state.active
                   /\ letter \in {<<"A">>, <<"B">>, <<"C">>, <<"D">>}
        matched == counted /\ letter = quiz_state.current_correct_option
    IN  /\ quiz_state' = r.state
        /\ quiz_ret' = r.ret
        /\ quiz_log' = [answers |-> quiz_log.answers + (IF counted THEN 1 ELSE 0),
                        matches |-> quiz_log.matches + (IF matched THEN 1 ELSE 0),
                        overwritten |-> FALSE]
        /\ UNCHANGED <<ALL_STATIC_QUESTIONS, routerVars, extractVars, mem_log, local_store>>

\* One GET /run_test: rejected by a check (lines 271-291), or start_quiz is
\* called and whatever it raises is caught (lines 299-304)
RunTest(q) ==
    \E checks \in {RunTestChecks(q)} :
        IF checks.status_code # 200
        THEN /\ quiz_ret' = RunTestRet(q, checks, NoRet)
             /\ UNCHANGED <<quiz_state, quiz_log, ALL_STATIC_QUESTIONS, routerVars,
                            extractVars, mem_log, local_store>>
        ELSE \E rank \in RankOutcomes(QuestionsToFilter(ALL_STATIC_QUESTIONS,
                                                        ChosenTopic(q)),
                                      IntOf(q.num_questions)) :
             \E sample \in SamplesDrawn(ALL_STATIC_QUESTIONS, ChosenTopic(q),
                                        IntOf(q.num_questions), rank) :
             \E r \in {StartQuizResult(quiz_state, ALL_STATIC_QUESTIONS,
                                       ChosenTopic(q), q.difficulty,
                                       IntOf(q.num_questions), rank, sample)} :
             LET replaced == r.ret.kind = "question" \/ r.state # quiz_state
             IN  /\ quiz_state' = r.state
                 /\ quiz_ret' = RunTestRet(q, checks, r.ret)
                 /\ quiz_log' = IF replaced
                                THEN [answers |-> 0, matches |-> 0,
                                      overwritten |-> quiz_state.active]
                                ELSE [quiz_log EXCEPT !.overwritten = FALSE]
                 /\ UNCHANGED <<ALL_STATIC_QUESTIONS, routerVars, extractVars,
                                mem_log, local_store>>

\* One call of extract_final_reply on the events at hand
ExtractFinalReply ==
    /\ extract_ret = NotExtracted
    /\ extract_ret' = Extracted(extract_events)
    /\ UNCHANGED <<extract_events, quizVars, routerVars, mem_log, local_store>>

\* One call of save_state by a client of the Memory Store
SaveState(uid, subject, topic, long_summary) ==
    /\ mem' = save_state(mem, uid, subject, topic, long_summary)
    /\ local_store' = save_state(local_store, uid, subject, topic, long_summary)
    /\ mem_log' = [last |-> [op |-> "save_state", uid |-> uid],
                   saved |-> [mem_log.saved EXCEPT ![uid] = <<subject, topic>>]]
    /\ UNCHANGED <<turns, quizVars, extractVars>>

\* One call of append_message
AppendMessage(uid, role, text, same_ms) ==
    /\ Len(local_store[<<"u">>].messages)
          + Len(local_store[<<"anonymous">>].messages) < MaxMessages
    /\ mem' = append_message(mem, uid, role, text, same_ms)
    /\ local_store' = local_append_message(local_store, uid, role, text)
    /\ mem_log' = [mem_log EXCEPT !.last = [op |-> "append_message", uid |-> uid]]
    /\ UNCHANGED <<turns, quizVars, extractVars>>

\* One call of update_long_term_summary
UpdateLongTermSummary(uid, summary) ==
    /\ mem' = update_long_term_summary(mem, uid, summary)
    /\ local_store' = update_long_term_summary(local_store, uid, summary)
    /\ mem_log' = [mem_log EXCEPT
                      !.last = [op |-> "update_long_term_summary", uid |-> uid]]
    /\ UNCHANGED <<turns, quizVars, extractVars>>

\* POST /tutor arrives and runs to its first await (or returns); flag is what
\* is_quiz_active_local() answers
TutorRequest(t, user_id, message, flag, same_ms) ==
    /\ turns[t].pc = "idle"
    /\ \A k \in 1..(t - 1) : turns[k].pc # "idle"
    /\ LET r == RequestResult(turns[t], mem, same_ms, user_id, message, flag)
       IN  /\ turns' = [turns EXCEPT ![t] = r.turn]
           /\ mem' = r.mem
    /\ UNCHANGED <<quizVars, extractVars, mem_log, local_store>>

IntentReturn(t, intent_events, same_ms) ==
    /\ turns[t].pc = "intent_call"
    /\ LET r == IntentResult(turns[t], mem, same_ms, intent_events)
       IN  /\ turns' = [turns EXCEPT ![t] = r.turn]
           /\ mem' = r.mem
    /\ UNCHANGED <<quizVars, extractVars, mem_log, local_store>>

SubjectReturn(t, cls_events, same_ms) ==
    /\ turns[t].pc = "subject_call"
    /\ LET r == SubjectResult(turns[t], mem, same_ms, cls_events)
       IN  /\ turns' = [turns EXCEPT ![t] = r.turn]
           /\ mem' = r.mem
    /\ UNCHANGED <<quizVars, extractVars, mem_log, local_store>>

AgentReturn(t, events, same_ms) ==
    /\ turns[t].pc = "agent_call"
    /\ LET r == AgentResult(turns[t], mem, same_ms, events)
       IN  /\ turns' = [turns EXCEPT ![t] = r.turn]
           /\ mem' = r.mem
    /\ UNCHANGED <<quizVars, extractVars, mem_log, local_store>>

\* The awaited collaborator is unavailable: its call raises
CollaboratorRaises(t) ==
    /\ turns[t].pc \in {"intent_call", "subject_call", "agent_call"}
    /\ turns' = [turns EXCEPT ![t] = RaiseResult(turns[t])]
    /\ UNCHANGED <<mem, quizVars, extractVars, mem_log, local_store>>

----------------------------------------------------------------------------
(* Specifications *)

InitRouter ==
    /\ mem = [u \in Uids |-> EmptyUserMemory]
    /\ turns = [t \in TurnIds |-> IdleTurn]

InitQuizIdle ==
    /\ quiz_state = InitialQuizState
    /\ quiz_ret = NoRet
    /\ quiz_log = [answers |-> 0, matches |-> 0, overwritten |-> FALSE]

\* SpecQuiz: the quiz service alone, under every call its clients can make
QuizStart ==
    \E td \in StartQuizInputs, n \in 0..MaxNumQuestions :
        \E rank \in RankOutcomes(QuestionsToFilter(ALL_STATIC_QUESTIONS, td[1]), n) :
            \E sample \in SamplesDrawn(ALL_STATIC_QUESTIONS, td[1], n, rank) :
                StartQuiz(td[1], td[2], n, rank, sample)

QuizAnswer == \E a \in AnswerInputs : AnswerQuestion(a)

NoStoreCall == [op |-> "none", uid |-> <<>>]

InitExtractIdle ==
    /\ extract_events = <<>>
    /\ extract_ret = NotExtracted
    /\ mem_log = [last |-> NoStoreCall, saved |-> [u \in Uids |-> None]]
    /\ local_store = [u \in Uids |-> EmptyUserMemory]

InitQuiz ==
    /\ InitQuizIdle
    /\ ALL_STATIC_QUESTIONS \in {<<>>, StaticPool}
    /\ InitRouter
    /\ InitExtractIdle

NextQuiz == QuizStart \/ QuizAnswer

SpecQuiz == InitQuiz /\ [][NextQuiz]_vars

\* SpecRunTest: the quiz service driven through GET /run_test, with answers
RunTests == \E q \in RunTestQueries : RunTest(q)

NextRunTest == RunTests \/ QuizAnswer

SpecRunTest == InitQuiz /\ [][NextRunTest]_vars

\* Spec: the router as deployed, is_quiz_active_local() answering the flag
Request ==
    \E t \in TurnIds, user_id \in UserIdInputs, message \in MessageInputs,
       same_ms \in BOOLEAN :
        TutorRequest(t, user_id, message, is_quiz_active_local, same_ms)

IntentReturns ==
    \E t \in TurnIds, intent_events \in IntentEventLists, same_ms \in BOOLEAN :
        IntentReturn(t, intent_events, same_ms)

SubjectReturns ==
    \E t \in TurnIds, cls_events \in SubjectEventLists, same_ms \in BOOLEAN :
        SubjectReturn(t, cls_events, same_ms)

AgentReturns ==
    \E t \in TurnIds, events \in AgentEventLists, same_ms \in BOOLEAN :
        AgentReturn(t, events, same_ms)

Raises == \E t \in TurnIds : CollaboratorRaises(t)

Init ==
    /\ InitQuizIdle
    /\ ALL_STATIC_QUESTIONS = StaticPool
    /\ InitRouter
    /\ InitExtractIdle

Next ==
    \/ Request
    \/ IntentReturns
    \/ SubjectReturns
    \/ AgentReturns
    \/ Raises

Spec == Init /\ [][Next]_vars

\* SpecSystem: the router as deployed, beside the quiz service running a quiz
SystemQuizStart ==
    \E rank \in {[kind |-> "error", items |-> <<>>],
                 [kind |-> "list", items |-> <<ForeignQuestion>>]} :
        StartQuiz(<<"f", "r", "a", "c">>, <<"easy">>, MaxNumQuestions, rank, <<>>)

SystemQuizAnswer == \E a \in {<<"A">>, <<"E">>} : AnswerQuestion(a)

NextSystem == Next \/ SystemQuizStart \/ SystemQuizAnswer

SpecSystem == Init /\ [][NextSystem]_vars

\* SpecIntent: intent resolution as a rule over the quiz-active flag and the
\* message (lines 193-224), the flag drawn from both of its values
IntentMessageInputs ==
    MessageInputs \cup {<<"o", "k", "?">>, <<"q", "u", "i", "z">>}

RequestWithFlag ==
    \E t \in TurnIds, user_id \in UserIdInputs, message \in IntentMessageInputs,
       flag \in BOOLEAN, same_ms \in BOOLEAN :
        TutorRequest(t, user_id, message, flag, same_ms)

IntentSubjectReturns ==
    \E t \in TurnIds : SubjectReturn(t, <<Event(None, << <<"J:fractions">> >>)>>, FALSE)

IntentAgentReturns ==
    \E t \in TurnIds, events \in AgentEventLists : AgentReturn(t, events, FALSE)

\* The Intent Classifier names one of the six intents
IntentBranchReturns ==
    \E t \in TurnIds,
       txt \in {<<"J:greeting">>, <<"J:small_talk">>, <<"J:quiz_answer">>,
                <<"J:request_quiz">>, <<"J:academic_question">>, <<"J:off_topic">>} :
        IntentReturn(t, <<Event(None, <<txt>>)>>, FALSE)

NextIntent ==
    \/ RequestWithFlag
    \/ IntentBranchReturns
    \/ IntentSubjectReturns
    \/ IntentAgentReturns
    \/ Raises

SpecIntent == Init /\ [][NextIntent]_vars

\* SpecExtract: extract_final_reply alone, called once on every list of events
InitExtractInputs ==
    /\ InitQuizIdle
    /\ ALL_STATIC_QUESTIONS = StaticPool
    /\ InitRouter
    /\ extract_events \in EventLists
    /\ extract_ret = NotExtracted
    /\ mem_log = [last |-> NoStoreCall, saved |-> [u \in Uids |-> None]]
    /\ local_store = [u \in Uids |-> EmptyUserMemory]

NextExtract == ExtractFinalReply

SpecExtract == InitExtractInputs /\ [][NextExtract]_vars

\* SpecMemory: the Memory Store alone, under every interleaving of calls for
\* the users
\* save_state as its callers use it: no long_summary argument
SaveStates ==
    \E uid \in Uids, st \in SavedPairs : SaveState(uid, st[1], st[2], None)

AppendMessages ==
    \E uid \in Uids, role \in RoleInputs, text \in TextInputs, same_ms \in BOOLEAN :
        AppendMessage(uid, role, text, same_ms)

UpdateLongTermSummaries ==
    \E uid \in Uids, summary \in SummaryInputs : UpdateLongTermSummary(uid, summary)

NextMemory == SaveStates \/ AppendMessages \/ UpdateLongTermSummaries

SpecMemory == Init /\ [][NextMemory]_vars


----------------------------------------------------------------------------
(* Properties *)

Count(xs, x) == Cardinality({i \in 1..Len(xs) : xs[i] = x})

\* Position of the first x in xs, 0 when there is none
Pos(xs, x) == FirstIndex(xs, LAMBDA y : y = x)

\* Both are in xs, x ahead of y
Before(xs, x, y) == Pos(xs, x) > 0 /\ Pos(xs, x) < Pos(xs, y)

\* The message is a single letter a-d or at most three characters long,
\* after trimming and lower-casing
IsShortMessage(msg) ==
    \/ Strip(Lower(msg)) \in {<<"a">>, <<"b">>, <<"c">>, <<"d">>}
    \/ Len(Strip(Lower(msg))) <= 3

\* A request with a non-empty message that has got past line 188
Routed(tr) == tr.pc # "idle" /\ tr.msg # <<>>

\* C1: whenever the quiz is active, 1 <= current_index <= total_questions and
\* current_correct_option is not null, after any calls of start_quiz and
\* answer_question.
C1_ActiveInvariant ==
    quiz_state.active =>
        /\ 1 <= quiz_state.current_index
        /\ quiz_state.current_index <= quiz_state.total_questions
        /\ quiz_state.current_correct_option # None

C1_Witness ==
    /\ quiz_state.active
    /\ quiz_state.current_index = 2
    /\ quiz_ret.op = "answer_question"

\* C2: in a turn whose flag read at its start is true and whose message is a
\* single letter a-d or at most three characters, the effective intent is
\* quiz_answer_forced and the Intent Classifier is never called.
C2_ForcedWhenShort ==
    \A t \in TurnIds :
        (Routed(turns[t]) /\ turns[t].quiz_active /\ IsShortMessage(turns[t].msg)) =>
            /\ turns[t].intent = <<"quiz_answer_forced">>
            /\ turns[t].pc # "intent_call"
            /\ Count(turns[t].trace, "intent_classifier") = 0

C2_Witness ==
    \E t \in TurnIds :
        /\ turns[t].pc = "returned"
        /\ turns[t].quiz_active
        /\ turns[t].msg = <<"o", "k", "?">>
        /\ turns[t].intent = <<"quiz_answer_forced">>

\* C3: a request that arrives while the quiz engine's quiz is active, with a
\* message that is a single letter a-d or at most three characters, gets the
\* intent quiz_answer_forced (and so never the off_topic branch).
C3_Claim ==
    [][\A t \in TurnIds :
          (/\ turns[t].pc = "idle"
           /\ turns'[t].pc # "idle"
           /\ turns'[t].msg # <<>>
           /\ IsShortMessage(turns'[t].msg)
           /\ quiz_state.active)
          => turns'[t].intent = <<"quiz_answer_forced">>]_vars

\* The branch the effective intent stands for
NamedBranch(intent) ==
    IF intent \in {<<"quiz_answer_forced">>, <<"greeting">>, <<"small_talk">>,
                   <<"quiz_answer">>, <<"request_quiz">>, <<"academic_question">>}
    THEN intent[1] ELSE "off_topic"

C5_Claim ==
    \A t \in TurnIds :
        turns[t].branch = "quiz_answer_forced" =>
            /\ turns[t].quiz_active
            /\ IsShortMessage(turns[t].msg)
            /\ Count(turns[t].trace, "intent_classifier") = 0

\* The classifier's reply has been read (lines 209-222 have run)
Classified(tr) ==
    /\ Count(tr.trace, "intent_classifier") = 1
    /\ Count(tr.trace, "dispatch") = 1

\* Replies that are empty, no JSON object, or an object without "intent"
UnusableIntentReplies ==
    {<<>>, <<"not json">>, <<"J:array">>, <<"J:no_intent">>, <<"J:empty_object">>}

\* C6 as claimed: after such a reply the intent is off_topic, the confidence
\* 0.0 and the off_topic branch runs.
C6_Claim ==
    \A t \in TurnIds :
        (Classified(turns[t]) /\ turns[t].intent_raw \in UnusableIntentReplies) =>
            /\ turns[t].intent = <<"off_topic">>
            /\ turns[t].intent_conf = <<"0.0">>
            /\ turns[t].branch = "off_topic"

\* C6 (amended): after such a reply the intent is off_topic and the off_topic
\* branch runs; the confidence is 0.0 unless the reply is a JSON object that
\* has a confidence field, whose value is then kept.
C6_DefaultIntent ==
    \A t \in TurnIds :
        (Classified(turns[t]) /\ turns[t].intent_raw \in UnusableIntentReplies) =>
            /\ turns[t].intent = <<"off_topic">>
            /\ turns[t].branch = "off_topic"
            /\ turns[t].intent_conf =
                  IF turns[t].intent_raw = <<"J:no_intent">>
                  THEN <<"0.9">> ELSE <<"0.0">>

C6_Witness ==
    \E t \in TurnIds :
        /\ turns[t].pc = "returned"
        /\ turns[t].intent_raw = <<"not json">>
        /\ turns[t].branch = "off_topic"

\* The user's stored messages hold the turn's message and, after it, its reply
PairStored(tr) ==
    LET h == mem[tr.uid].messages
    IN  \E i, j \in 1..Len(h) :
            /\ i < j
            /\ h[i] = [role |-> "user", text |-> tr.msg]
            /\ h[j] = [role |-> "assistant", text |-> tr.response]

\* C7: a returned turn with a non-empty message appended the user's message
\* once, before the reply was produced, and the reply once, after it; the
\* user's history holds the message and then the reply.
C7_Claim ==
    \A t \in TurnIds :
        (Routed(turns[t]) /\ turns[t].pc = "returned") =>
            /\ Count(turns[t].trace, "append_user") = 1
            /\ Count(turns[t].trace, "append_assistant") = 1
            /\ Before(turns[t].trace, "append_user", "append_assistant")
            /\ Count(turns[t].trace, "agent") = 1 =>
                    /\ Before(turns[t].trace, "append_user", "agent")
                    /\ Before(turns[t].trace, "agent", "append_assistant")
            /\ PairStored(turns[t])

\* C8 as claimed: the user's message is stored before any classifier is called.
C8_Claim ==
    \A t \in TurnIds :
        /\ turns[t].pc = "intent_call" => Count(turns[t].trace, "append_user") = 1
        /\ (turns[t].pc = "subject_call" /\ turns[t].branch = "academic_question") =>
                Count(turns[t].trace, "append_user") = 1

\* x is not in xs, or it is there once and after every y that is there
After(xs, x, y) ==
    Count(xs, x) = 0 \/ (Count(xs, x) = 1 /\ Pos(xs, y) < Pos(xs, x))

\* C8 (amended): the steps of a turn come in the order classify intent,
\* dispatch, append user message, generate reply, append assistant message,
\* each at most once; the message is not yet stored while the Intent
\* Classifier (for academic questions, the Subject/Topic Classifier) is
\* awaited, and it is stored when the reply is generated.
C8_StepOrder ==
    \A t \in TurnIds :
        LET tr == turns[t]
        IN  /\ Count(tr.trace, "intent_classifier") <= 1
            /\ After(tr.trace, "dispatch", "intent_classifier")
            /\ After(tr.trace, "append_user", "dispatch")
            /\ After(tr.trace, "agent", "append_user")
            /\ After(tr.trace, "append_assistant", "append_user")
            /\ After(tr.trace, "append_assistant", "agent")
            /\ Count(tr.trace, "agent") = 1 => Count(tr.trace, "append_user") = 1
            /\ Count(tr.trace, "append_assistant") = 1 =>
                    Count(tr.trace, "append_user") = 1
            /\ tr.pc = "intent_call" => Count(tr.trace, "append_user") = 0
            /\ (tr.pc = "subject_call" /\ tr.branch = "academic_question") =>
                    Count(tr.trace, "append_user") = 0
            /\ tr.pc = "agent_call" => Count(tr.trace, "append_user") = 1

C8_Witness ==
    \E t \in TurnIds :
        /\ turns[t].pc = "returned"
        /\ turns[t].branch = "academic_question"
        /\ turns[t].trace =
              <<"intent_classifier", "dispatch", "subject_classifier", "save_state",
                "append_user", "summarize", "agent", "append_assistant">>

\* C9: when the agent's run gives an empty reply the response is the branch's
\* fallback text, and every response is a non-empty text.
C9_FallbackReply ==
    \A t \in TurnIds :
        turns[t].pc = "returned" =>
            /\ turns[t].response # None
            /\ turns[t].response # <<>>
            /\ (Count(turns[t].trace, "agent") = 1
                /\ extract_final_reply(turns[t].events) = <<>>) =>
                    /\ turns[t].response = Fallback(turns[t].branch)
                    /\ Fallback(turns[t].branch) # <<>>

C9_Witness ==
    \E t \in TurnIds :
        /\ turns[t].pc = "returned"
        /\ turns[t].branch = "request_quiz"
        /\ Count(turns[t].trace, "agent") = 1
        /\ extract_final_reply(turns[t].events) = <<>>
        /\ turns[t].response = Fallback("request_quiz")

\* C10: a turn whose collaborator call failed does not end in an error: it
\* returns the branch's fallback text, stored as the assistant message.
C10_Claim ==
    \A t \in TurnIds :
        Count(turns[t].trace, "exception") > 0 =>
            /\ turns[t].pc = "returned"
            /\ turns[t].response = Fallback(turns[t].branch)
            /\ \E i \in 1..Len(mem[turns[t].uid].messages) :
                  mem[turns[t].uid].messages[i] =
                      [role |-> "assistant", text |-> turns[t].response]

\* P holds of every argument list c start_quiz can be called with, together
\* with what its ranking call hands back and what random.sample draws
ForEachStartCall(P(_)) ==
    \A td \in StartQuizInputs, n \in 0..MaxNumQuestions :
        \A rank \in RankOutcomes(QuestionsToFilter(ALL_STATIC_QUESTIONS, td[1]), n) :
            \A sample \in SamplesDrawn(ALL_STATIC_QUESTIONS, td[1], n, rank) :
                P([topic |-> td[1], difficulty |-> td[2], n |-> n,
                   rank |-> rank, sample |-> sample])

\* What start_quiz does when called with c in the current state
StartResult(c) ==
    StartQuizResult(quiz_state, ALL_STATIC_QUESTIONS, c.topic, c.difficulty, c.n,
                    c.rank, c.sample)

\* The selected records with a usable answer, normalized
SelectedValid(c) ==
    SelectSeq(SeqMap(Selection(ALL_STATIC_QUESTIONS, c.topic, c.n, c.rank, c.sample).items,
                     NormalizeQuestion),
              LAMBDA q : q.correct_option # None /\ q.correct_option # <<>>)

\* C11: a start_quiz call that returns the text of question 1 leaves, whatever
\* the state before, exactly: active, the given topic and difficulty, the
\* selected valid questions, their number as total_questions, current_index 1,
\* the first question's correct option, score 0; the text is question 1's.
C11_StartReplacesState ==
    /\ ForEachStartCall(LAMBDA c :
          \A r \in {StartResult(c)} :
              r.ret.kind = "question" =>
                \A valid \in {SelectedValid(c)} :
                    /\ r.state = [active |-> TRUE, topic |-> c.topic,
                                  difficulty |-> c.difficulty,
                                  total_questions |-> Len(valid),
                                  current_index |-> 1,
                                  current_correct_option |-> valid[1].correct_option,
                                  score |-> 0, questions_list |-> valid]
                    /\ Len(valid) >= 1
                    /\ r.ret.index = 1
                    /\ r.ret.question = valid[1].question)
    /\ (quiz_ret.op = "start_quiz" /\ quiz_ret.kind = "question") =>
          /\ quiz_state.active
          /\ quiz_state.current_index = 1
          /\ quiz_state.score = 0
          /\ quiz_state.total_questions = Len(quiz_state.questions_list)
          /\ quiz_state.current_correct_option =
                quiz_state.questions_list[1].correct_option
          /\ quiz_ret.question = quiz_state.questions_list[1].question

C11_Witness ==
    /\ quiz_ret.op = "start_quiz"
    /\ quiz_ret.kind = "question"
    /\ quiz_state.topic = <<"M", "a", "t", "h", " ">>
    /\ quiz_state.difficulty = <<"hard">>
    /\ quiz_state.total_questions = 2

\* The answer as answer_question reads it: trimmed and upper-cased
Letter(a) == Upper(Strip(a))

\* The answer is one of A, B, C, D after trimming and upper-casing
ValidAnswer(a) == Letter(a) \in {<<"A">>, <<"B">>, <<"C">>, <<"D">>}

\* C12: answer_question changes no field of the quiz state when no quiz is
\* active (it returns the no-active-quiz message) and when the answer is not
\* A-D after trimming and upper-casing (it returns the re-prompt).
C12_AnswerFrame ==
    \A a \in AnswerInputs :
        LET r == AnswerQuestionResult(quiz_state, a)
        IN  /\ ~quiz_state.active =>
                  r.state = quiz_state /\ r.ret.kind = "no_active"
            /\ (quiz_state.active /\ ~ValidAnswer(a)) =>
                  r.state = quiz_state /\ r.ret.kind = "reprompt"
            /\ r.state # quiz_state => quiz_state.active /\ ValidAnswer(a)

C12_Witness ==
    /\ quiz_ret.kind = "reprompt"
    /\ quiz_state.active
    /\ quiz_state.current_index = 2
    /\ quiz_state.score = 1

\* C13: a valid answer to an active quiz adds exactly 1 to score when it
\* equals current_correct_option and nothing otherwise; no other call of
\* answer_question changes score, and start_quiz changes it only by replacing
\* the state, which sets it to 0.  So score counts the matching answers.
C13_ScoreStep ==
    /\ \A a \in AnswerInputs :
          LET r == AnswerQuestionResult(quiz_state, a)
          IN  r.state.score =
                quiz_state.score +
                  (IF quiz_state.active /\ ValidAnswer(a)
                      /\ Letter(a) = quiz_state.current_correct_option
                   THEN 1 ELSE 0)
    /\ ForEachStartCall(LAMBDA c :
          \A r \in {StartResult(c)} :
              r.state.score # quiz_state.score =>
                r.state.score = 0 /\ r.state # quiz_state)
    /\ quiz_state.score = quiz_log.matches

C13_Witness ==
    /\ quiz_ret.op = "answer_question"
    /\ quiz_ret.kind = "question"
    /\ quiz_ret.feedback = "correct"
    /\ quiz_state.score = 1
    /\ quiz_log.matches = 1

C15_Lifecycle ==
    /\ quiz_state.active =>
          /\ quiz_log.answers = quiz_state.current_index - 1
          /\ quiz_log.answers < quiz_state.total_questions
    /\ (~quiz_state.active /\ quiz_state.questions_list # <<>>) =>
          /\ quiz_log.answers = quiz_state.total_questions
          /\ quiz_state.total_questions = Len(quiz_state.questions_list)
          /\ quiz_state.score = quiz_log.matches
          /\ \A a \in AnswerInputs :
                ~AnswerQuestionResult(quiz_state, a).state.active
    /\ quiz_ret.kind = "completed" =>
          /\ ~quiz_state.active
          /\ quiz_ret.score = quiz_log.matches
          /\ quiz_ret.total = quiz_log.answers

C15_Witness ==
    /\ ~quiz_state.active
    /\ quiz_ret.kind = "completed"
    /\ quiz_ret.feedback = "incorrect"
    /\ quiz_ret.score = 1
    /\ quiz_ret.total = 2
    /\ quiz_log.answers = 2
    /\ quiz_log.matches = 1

\* What start_quiz would do when called with c on the state of a fresh process
FreshStartResult(c) ==
    StartQuizResult(InitialQuizState, ALL_STATIC_QUESTIONS, c.topic, c.difficulty,
                    c.n, c.rank, c.sample)

\* C16: there is one quiz state for all callers.  A start_quiz call does on a
\* quiz in progress what it does on an idle service: it is never refused, and
\* when it succeeds the progress of the quiz it found is gone.  The next
\* answer_question, whoever sends it, is scored against the new quiz's current
\* question and advances the new quiz.
C16_SharedState ==
    /\ ForEachStartCall(LAMBDA c :
          \A r \in {StartResult(c)}, fresh \in {FreshStartResult(c)} :
              /\ r.ret = fresh.ret
              /\ r.ret.kind = "question" => r.state = fresh.state)
    /\ (quiz_log.overwritten /\ quiz_log.answers = 0) =>
          /\ quiz_state.active
          /\ quiz_state.current_index = 1
          /\ quiz_state.score = 0
          /\ \A a \in AnswerInputs :
                LET r == AnswerQuestionResult(quiz_state, a)
                IN  ValidAnswer(a) =>
                      /\ r.ret.kind \in {"completed", "question", "raise"}
                      /\ r.state.score =
                            IF Letter(a) = quiz_state.questions_list[1].correct_option
                            THEN 1 ELSE 0
                      /\ \/ r.state.current_index = 2
                         \/ ~r.state.active

C16_Witness ==
    /\ quiz_log.overwritten
    /\ quiz_ret.op = "start_quiz"
    /\ quiz_ret.kind = "question"
    /\ quiz_state.topic = <<"f", "r", "a", "c">>
    /\ quiz_state.current_index = 1
    /\ quiz_state.score = 0

\* C17: with an empty question pool every start_quiz call returns the
\* quiz-data-unavailable message, calls neither the search nor the ranking
\* collaborator, and leaves the quiz state as it was.
C17_EmptyPool ==
    ALL_STATIC_QUESTIONS = <<>> =>
        /\ ForEachStartCall(LAMBDA c :
              \A r \in {StartResult(c)} :
                  /\ r.ret.kind = "unavailable"
                  /\ r.ret.called = {}
                  /\ r.state = quiz_state)
        /\ quiz_ret.op = "start_quiz" =>
              quiz_ret.kind = "unavailable" /\ quiz_ret.called = {}
        /\ quiz_state = InitialQuizState

C17_Witness ==
    /\ ALL_STATIC_QUESTIONS = <<>>
    /\ quiz_ret.op = "start_quiz"
    /\ quiz_ret.kind = "unavailable"
    /\ quiz_ret.called = {}
    /\ ~quiz_state.active

\* q is the normalization of a pool record whose subject is the topic,
\* compared without case
FromSubject(q, topic) ==
    \E k \in 1..Len(ALL_STATIC_QUESTIONS) :
        /\ Lower(SubjectOf(ALL_STATIC_QUESTIONS[k])) = Lower(Strip(topic))
        /\ NormalizeQuestion(ALL_STATIC_QUESTIONS[k]) = q

\* C18: when the trimmed, lower-cased topic is the subject of some pool record,
\* every question of the quiz that start_quiz sets up comes from a record with
\* that subject.
C18_Claim ==
    ForEachStartCall(LAMBDA c :
        (\E k \in 1..Len(ALL_STATIC_QUESTIONS) :
            ALL_STATIC_QUESTIONS[k].subject # None
            /\ Lower(ALL_STATIC_QUESTIONS[k].subject) = Lower(Strip(c.topic))) =>
          \A r \in {StartResult(c)} :
              r.ret.kind = "question" =>
                \A i \in 1..Len(r.state.questions_list) :
                    FromSubject(r.state.questions_list[i], c.topic))

\* The ranking call returned without error, with nothing usable: an empty
\* list, or output that is not a list of question records
NothingUsable(rank) ==
    \/ rank.kind = "list" /\ rank.items = <<>>
    \/ rank.kind = "not_records"

\* What start_quiz does in the current state when the ranking call fails
FailedRankResult(c, sample) ==
    StartQuizResult(quiz_state, ALL_STATIC_QUESTIONS, c.topic, c.difficulty, c.n,
                    [kind |-> "error", items |-> <<>>], sample)

\* C19: a ranking call that returns without error but with nothing usable
\* gives the outcome of a failed ranking call (the fallback selection), never
\* 'no valid questions found' or an error in its place.
C19_Claim ==
    ForEachStartCall(LAMBDA c :
        NothingUsable(c.rank) =>
          \A r \in {StartResult(c)} :
              \E sample \in SamplesDrawn(ALL_STATIC_QUESTIONS, c.topic, c.n,
                                         [kind |-> "error", items |-> <<>>]) :
                  r = FailedRankResult(c, sample))

\* The selections the fallback order allows for a call: the records whose
\* topic contains the cleaned topic, up to n, if the topic is non-empty, is
\* not a subject and such records exist; else up to n records of the
\* subject-filtered pool if the topic is a subject; else any random sample of
\* min(n, pool size) records of the whole pool
FallbackOrder(c) ==
    LET pool == ALL_STATIC_QUESTIONS
        clean == CleanInput(c.topic)
        topic_match == SelectSeq(pool, LAMBDA q : IsSubstr(clean, Lower(TopicOf(q))))
    IN  IF clean # <<>> /\ ~IsSubjectOnly(pool, c.topic) /\ topic_match # <<>>
        THEN {Take(topic_match, c.n)}
        ELSE IF IsSubjectOnly(pool, c.topic)
        THEN {Take(QuestionsToFilter(pool, c.topic), c.n)}
        ELSE Samples(pool, SampleSize(pool, c.n))

\* C20: when the ranking call fails, start_quiz goes on with a selection of
\* the fallback order (topic matches, else the subject-filtered pool, else a
\* random sample of the whole pool); in particular a non-empty topic that
\* matches no record's topic and is no subject goes on with a random sample.
C20_Claim ==
    ALL_STATIC_QUESTIONS # <<>> =>
      ForEachStartCall(LAMBDA c :
        c.rank.kind = "error" =>
          \A r \in {StartResult(c)} :
              \E items \in FallbackOrder(c) :
                  r = StartQuizResult(quiz_state, ALL_STATIC_QUESTIONS, c.topic,
                                      c.difficulty, c.n,
                                      [kind |-> "list", items |-> items], <<>>))

\* q is the normalization of a record of the candidate pool of the topic
FromCandidates(q, topic) ==
    \E k \in 1..Len(QuestionsToFilter(ALL_STATIC_QUESTIONS, topic)) :
        NormalizeQuestion(QuestionsToFilter(ALL_STATIC_QUESTIONS, topic)[k]) = q

\* C21: a start_quiz(topic, difficulty, n) call that returns question 1 leaves
\* at most n questions in questions_list (total_questions <= n), each the
\* normalization of a record of the candidate pool, whatever the ranking
\* collaborator replied.
C21_Claim ==
    ForEachStartCall(LAMBDA c :
        \A r \in {StartResult(c)} :
            r.ret.kind = "question" =>
              /\ Len(r.state.questions_list) <= c.n
              /\ r.state.total_questions <= c.n
              /\ \A i \in 1..Len(r.state.questions_list) :
                    FromCandidates(r.state.questions_list[i], c.topic))

\* C22: every raw record whose answer is not exactly 'A', 'B', 'C' or 'D'
\* normalizes to correct_option = None and is in no questions_list that
\* start_quiz sets up; every question of the current quiz has its
\* correct_option among the four letters.
C22_Claim ==
    /\ \A k \in 1..Len(ALL_STATIC_QUESTIONS) :
          ALL_STATIC_QUESTIONS[k].answer \notin AnswerLetters =>
              NormalizeQuestion(ALL_STATIC_QUESTIONS[k]).correct_option = None
    /\ ForEachStartCall(LAMBDA c :
          \A r \in {StartResult(c)} :
              r.ret.kind = "question" =>
                \A i \in 1..Len(r.state.questions_list) :
                    r.state.questions_list[i].correct_option \in AnswerLetters)
    /\ \A i \in 1..Len(quiz_state.questions_list) :
          quiz_state.questions_list[i].correct_option \in AnswerLetters

\* C23: a question with fewer than four options is still rendered: start_quiz
\* returns the text of question 1 when the first selected valid question has
\* fewer than 4 options, and answer_question returns the text of the next
\* question when that one has fewer than 4 options.
C23_Claim ==
    /\ ForEachStartCall(LAMBDA c :
          \A sel \in {SelectedValid(c)} :
              (sel # <<>> /\ Len(sel[1].options) < 4) =>
                  \A r \in {StartResult(c)} :
                      /\ r.ret.kind = "question"
                      /\ r.ret.question = sel[1].question)
    /\ \A a \in AnswerInputs :
          (/\ quiz_state.active
           /\ ValidAnswer(a)
           /\ quiz_state.current_index < Len(quiz_state.questions_list)
           /\ quiz_state.current_index < quiz_state.total_questions
           /\ Len(quiz_state.questions_list[quiz_state.current_index + 1].options) < 4) =>
              \A r \in {AnswerQuestionResult(quiz_state, a)} :
                  /\ r.ret.kind = "question"
                  /\ r.ret.question =
                        quiz_state.questions_list[quiz_state.current_index + 1].question

\* The state-delta replies and the part texts of a list of events, in order,
\* as far as each is a non-empty text
NonEmptyReplies(events) ==
    SelectSeq([i \in 1..Len(events) |-> StateDeltaReply(events[i])], PyTruthy)

RECURSIVE NonEmptyTexts(_)
NonEmptyTexts(events) ==
    IF events = <<>> THEN <<>>
    ELSE SelectSeq([j \in 1..Len(PartsOf(Head(events))) |->
                       PartText(PartsOf(Head(events))[j])], PyTruthy)
         \o NonEmptyTexts(Tail(events))

\* C24: for every list of events, events without actions, stateDelta,
\* content, parts or text included, extract_final_reply returns a str, never
\* None; the empty str when no state delta has a non-empty reply and no part
\* a non-empty text; the events and everything else are left as they were.
C24_AlwaysString ==
    /\ [](extract_ret # NotExtracted =>
             /\ extract_ret.type = "str"
             /\ (NonEmptyReplies(extract_events) = <<>>
                 /\ NonEmptyTexts(extract_events) = <<>>) =>
                    extract_ret = PyStr(<<>>))
    /\ [][ExtractFinalReply =>
             UNCHANGED <<extract_events, quizVars, routerVars>>]_vars

C24_Witness ==
    /\ Len(extract_events) = 2
    /\ "actions" \notin DOMAIN extract_events[1]
    /\ "content" \notin DOMAIN extract_events[1]
    /\ "actions" \in DOMAIN extract_events[2]
    /\ "stateDelta" \in DOMAIN extract_events[2].actions
    /\ extract_events[2].actions.stateDelta.type = "str"
    /\ extract_ret = PyStr(<<>>)

\* C25: extract_final_reply returns the reply of the first event whose state
\* delta holds a non-empty reply; only when no event has one, the first
\* non-empty text over all events and parts in order.  A reply in a later
\* event wins over a part text in an earlier event.
C25_ReplyBeforeText ==
    extract_ret # NotExtracted =>
        IF NonEmptyReplies(extract_events) # <<>>
        THEN extract_ret = Head(NonEmptyReplies(extract_events))
        ELSE IF NonEmptyTexts(extract_events) # <<>>
        THEN extract_ret = Head(NonEmptyTexts(extract_events))
        ELSE extract_ret = PyStr(<<>>)

C25_Witness ==
    /\ Len(extract_events) = 2
    /\ NonEmptyTexts(<<extract_events[1]>>) = <<PyStr(<<"text 1">>)>>
    /\ NonEmptyReplies(<<extract_events[1]>>) = <<>>
    /\ NonEmptyReplies(<<extract_events[2]>>) = <<PyStr(<<"reply 2">>)>>
    /\ extract_ret = PyStr(<<"reply 2">>)

\* The state document of every user: current_subject, current_topic,
\* long_term_summary
StateDocuments(m) == [u \in Uids |-> m[u].state]

\* C26: only a request in the academic_question branch calls
\* summarize_short_term and save_state; the stitched instruction of every
\* other branch holds no summary, and no step of a request in another branch
\* changes current_subject, current_topic or long_term_summary of any user.
C26_OnlyAcademicUsesMemory ==
    /\ [](\A t \in TurnIds :
            /\ (Count(turns[t].trace, "summarize") > 0
                \/ Count(turns[t].trace, "save_state") > 0) =>
                    turns[t].branch = "academic_question"
            /\ turns[t].branch # "academic_question" =>
                    turns[t].stitched.summary = NoSummary)
    /\ [][\A t \in TurnIds :
            (turns'[t] # turns[t] /\ turns'[t].branch # "academic_question") =>
                StateDocuments(mem') = StateDocuments(mem)]_vars

C26_Witness ==
    \E t \in TurnIds :
        /\ turns[t].pc = "returned"
        /\ turns[t].branch = "request_quiz"
        /\ Count(turns[t].trace, "agent") = 1
        /\ turns[t].stitched.kind = "start_quiz_topic"
        /\ turns[t].stitched.summary = NoSummary
        /\ StateDocuments(mem) = [u \in Uids |-> EmptyUserMemory.state]

\* The four generic subject words, lower-cased
BroadWords ==
    {<<"m", "a", "t", "h">>, <<"m", "a", "t", "h", "s">>,
     <<"m", "a", "t", "h", "e", "m", "a", "t", "i", "c", "s">>,
     <<"s", "c", "i", "e", "n", "c", "e">>}

\* The request is in the request_quiz branch and its classifier has returned
QuizClassified(tr) ==
    tr.branch = "request_quiz" /\ tr.pc \in {"agent_call", "returned"}

\* C27: in the request_quiz branch, when (the topic is None or a generic
\* subject word) and the subject is a generic subject word, the agent is not
\* invoked, no instruction is stitched and the reply asks for a narrower topic
\* with at most 7 examples of 'math' (subject contains 'math') or 'science';
\* otherwise a classified topic gives the instruction mandating start_quiz
\* with exactly that topic, 'easy' and 5; otherwise the looser instruction
\* with the same defaults is used.
C27_RequestQuiz ==
    \A t \in TurnIds :
        QuizClassified(turns[t]) =>
            LET tr == turns[t]
                broad == /\ tr.topic = None \/ Lower(tr.topic) \in BroadWords
                         /\ tr.subject # None /\ Lower(tr.subject) \in BroadWords
                table == get_topic_examples(
                            IF IsSubstr(<<"m", "a", "t", "h">>, Lower(tr.subject))
                            THEN "math" ELSE "science")
                listed == SubSeq(tr.response, Len(tr.subject) + 2, Len(tr.response))
            IN  IF broad
                THEN /\ tr.pc = "returned"
                     /\ Count(tr.trace, "agent") = 0
                     /\ tr.stitched = NoPrompt
                     /\ SubSeq(tr.response, 1, Len(tr.subject)) = tr.subject
                     /\ Len(listed) <= 7
                     /\ listed = SubSeq(table, 1, Len(listed))
                     /\ Len(listed) = 7 \/ listed = table
                ELSE /\ Count(tr.trace, "agent") = 1
                     /\ tr.stitched.params =
                            [difficulty |-> <<"easy">>, num_questions |-> 5]
                     /\ tr.stitched.msg = tr.msg
                     /\ IF tr.topic # None /\ tr.topic # <<>>
                        THEN /\ tr.stitched.kind = "start_quiz_topic"
                             /\ tr.stitched.topic = tr.topic
                        ELSE /\ tr.stitched.kind = "start_quiz_from_message"
                             /\ tr.stitched.topic = None

C27_Witness ==
    \E t \in TurnIds :
        /\ QuizClassified(turns[t])
        /\ turns[t].pc = "returned"
        /\ turns[t].subject = Science
        /\ turns[t].topic = None
        /\ Count(turns[t].trace, "agent") = 0
        /\ turns[t].response[Len(turns[t].response)] = "chemical bonding"

\* C28: a /tutor request whose message is empty after trimming returns 'Say
\* something to begin!' with an empty memory_debug; no classifier and no agent
\* is called, and the step changes neither the Memory Store nor the quiz state.
C28_EmptyMessage ==
    /\ [](\A t \in TurnIds :
            (turns[t].pc # "idle" /\ turns[t].msg = <<>>) =>
                /\ turns[t].pc = "returned"
                /\ turns[t].response = <<"Say something to begin!">>
                /\ ~turns[t].memory_debug.has
                /\ turns[t].trace = <<>>
                /\ turns[t].stitched = NoPrompt)
    /\ [][\A t \in TurnIds :
            (turns'[t] # turns[t] /\ turns'[t].msg = <<>>) =>
                /\ mem' = mem
                /\ quiz_state' = quiz_state
                /\ ALL_STATIC_QUESTIONS' = ALL_STATIC_QUESTIONS]_vars

C28_Witness ==
    \E t \in TurnIds :
        /\ turns[t].pc = "returned"
        /\ turns[t].msg = <<>>
        /\ turns[t].response = <<"Say something to begin!">>
        /\ ~turns[t].memory_debug.has
        /\ mem = [u \in Uids |-> EmptyUserMemory]

\* What a user can read back from the store
Readable(m, uid) ==
    [state |-> load_user_state(m, uid), summary |-> summarize_short_term(m, uid)]

\* C29: save_state, append_message and update_long_term_summary for one user
\* never change what load_user_state or summarize_short_term returns for any
\* other user, under any interleaving of the users' calls.
C29_PartitionedByUser ==
    [][\A a \in Uids :
          mem_log'.last.uid = a =>
              \A b \in Uids \ {a} : Readable(mem', b) = Readable(mem, b)]_vars

C29_Witness ==
    /\ mem_log.last = [op |-> "save_state", uid |-> <<"u">>]
    /\ load_user_state(mem, <<"u">>).current_subject = <<"Science">>
    /\ load_user_state(mem, <<"anonymous">>).current_subject = <<"Math">>
    /\ load_user_state(mem, <<"anonymous">>).current_topic = <<"Algebra">>
    /\ Len(mem[<<"anonymous">>].messages) = 1
    /\ Len(mem[<<"u">>].messages) = 1

\* C30: after save_state(uid, s, t), load_user_state(uid) returns
\* current_subject = s and current_topic = t, for a new and for an existing
\* user, until the next save_state for that uid; append_message (and
\* update_long_term_summary) calls in between do not change them.
C30_SaveLoadRoundTrip ==
    \A uid \in Uids :
        mem_log.saved[uid] # None =>
            /\ load_user_state(mem, uid).current_subject = mem_log.saved[uid][1]
            /\ load_user_state(mem, uid).current_topic = mem_log.saved[uid][2]

C30_Witness ==
    /\ mem_log.saved[<<"u">>] = <<<<"Math">>, <<"Algebra">>>>
    /\ mem_log.last = [op |-> "append_message", uid |-> <<"u">>]
    /\ Len(mem[<<"u">>].messages) = 2
    /\ mem[<<"u">>].state.long_term_summary = <<"summary 1">>
    /\ load_user_state(mem, <<"u">>).current_subject = <<"Math">>
    /\ load_user_state(mem, <<"u">>).current_topic = <<"Algebra">>

\* The messages appended for a user by the direct calls, in append order
Appended(uid) == local_store[uid].messages

\* C31: after any sequence of append_message calls for a user,
\* load_user_state returns the most recent min(20, k) of the k appended
\* messages and summarize_short_term covers the most recent min(10, k), both
\* oldest to newest in append order.
C31_Claim ==
    \A uid \in Uids :
        /\ load_user_state(mem, uid).short_term_messages = LastN(Appended(uid), 20)
        /\ summarize_short_term(mem, uid).lines = LastN(Appended(uid), 10)
        /\ summarize_short_term(mem, uid).found = (Appended(uid) # <<>>)

\* C32: no appended message is lost or changed: after k <= 20 append_message
\* calls for a user, load_user_state returns exactly those k messages in
\* insertion order, also when two appends fall in the same millisecond.
C32_Claim ==
    \A uid \in Uids :
        Len(Appended(uid)) <= 20 =>
            /\ Len(load_user_state(mem, uid).short_term_messages) = Len(Appended(uid))
            /\ \A i \in 1..Len(Appended(uid)) :
                  load_user_state(mem, uid).short_term_messages[i] = Appended(uid)[i]

\* C38: save_state called without a long-term summary leaves a stored
\* long_term_summary as it was: from every state of the store, for every user
\* and every subject and topic, the summary loaded after the call is the
\* summary loaded before it.
C38_Claim ==
    \A uid \in Uids, st \in SavedPairs :
        load_user_state(save_state(mem, uid, st[1], st[2], None), uid).long_term_summary
            = load_user_state(mem, uid).long_term_summary

\* C40: the in-memory fallback store and the document store, given the same
\* save_state, append_message and update_long_term_summary calls, return the
\* same values from load_user_state and summarize_short_term.
C40_Claim ==
    \A uid \in Uids :
        /\ load_user_state(local_store, uid) = load_user_state(mem, uid)
        /\ summarize_short_term(local_store, uid) = summarize_short_term(mem, uid)

\* A query parameter that was not given
Missing(x) == x = None

\* C33: run_test answers 401 whenever the token differs from the configured
\* secret, whatever the other parameters are; with the right token it answers
\* 400 when difficulty is missing, num_questions is missing or is not an
\* integer, or neither subject nor topic is given; start_quiz is called only
\* when every check passed, and a rejected request leaves quiz_state unchanged
C33_RunTestChecks ==
    /\ [](quiz_ret.op = "run_test" =>
            \E q \in {quiz_ret.request} :
              /\ q.token # TEST_TOKEN => quiz_ret.status_code = 401
              /\ (/\ q.token = TEST_TOKEN
                  /\ \/ Missing(q.difficulty)
                     \/ Missing(q.num_questions)
                     \/ IntRaises(q.num_questions)
                     \/ Missing(q.subject) /\ Missing(q.topic))
                 => quiz_ret.status_code = 400
              /\ quiz_ret.quiz # NoRet =>
                    /\ q.token = TEST_TOKEN
                    /\ ~Missing(q.difficulty)
                    /\ ~Missing(q.num_questions) /\ ~IntRaises(q.num_questions)
                    /\ ~(Missing(q.subject) /\ Missing(q.topic)))
    /\ [][(quiz_ret'.op = "run_test" /\ quiz_ret'.status_code # 200)
            => quiz_state' = quiz_state]_vars

\* A quiz is in progress and a request with a wrong token, complete otherwise,
\* was answered 401
C33_Witness ==
    /\ quiz_ret.op = "run_test"
    /\ quiz_ret.status_code = 401
    /\ quiz_ret.request.token = <<"wrong">>
    /\ quiz_ret.request.difficulty = <<"easy">>
    /\ quiz_ret.request.num_questions = <<"2">>
    /\ quiz_ret.request.topic = <<"f", "r", "a", "c">>
    /\ quiz_state.active

\* The documented shape of a classified subject or topic: null or a non-empty
\* string
OptionalText(x) == x = None \/ x # <<>>

\* The classifier reply does not parse: no JSON, no object, or a confidence
\* that is no number
ParseFails(cls_raw) ==
    \E j \in {JsonLoads(StripFences(cls_raw))} :
        \/ ~j.ok
        \/ j.value.type # "object"
        \/ FloatRaises(Get(j.value, "confidence", ZeroConfidence))

\* C34: parsing a Subject/Topic Classifier reply always yields subject and
\* topic that are each null or a non-empty string, and (null, null, 0.0) when
\* the reply does not parse: in the helper, in the request_quiz branch and in
\* the academic_question branch, whose result is persisted as
\* current_subject / current_topic
C34_Claim ==
    /\ \A evs \in SubjectEventLists, no_sync_runner \in BOOLEAN :
         \E c \in {classify_subject_and_topic(no_sync_runner, evs)} :
            /\ OptionalText(c.subject) /\ OptionalText(c.topic)
            /\ (extract_final_reply(evs) = <<>> \/ ParseFails(extract_final_reply(evs)))
                  => c = [subject |-> None, topic |-> None, conf |-> ZeroConfidence]
    /\ \A t \in TurnIds :
         (turns[t].branch \in {"request_quiz", "academic_question"}
          /\ turns[t].pc \in {"agent_call", "returned"})
            => OptionalText(turns[t].subject) /\ OptionalText(turns[t].topic)
    /\ \A uid \in Uids :
         /\ OptionalText(load_user_state(mem, uid).current_subject)
         /\ OptionalText(load_user_state(mem, uid).current_topic)

\* C35: whenever a quiz is active, current_correct_option is the
\* correct_option of questions_list[current_index - 1], the question awaiting
\* an answer (position current_index counting from one), and total_questions
\* is the length of questions_list, after any start_quiz and answer_question
\* calls
C35_CurrentQuestion ==
    quiz_state.active =>
        /\ quiz_state.current_index \in 1..Len(quiz_state.questions_list)
        /\ quiz_state.current_correct_option =
              quiz_state.questions_list[quiz_state.current_index].correct_option
        /\ quiz_state.total_questions = Len(quiz_state.questions_list)

\* An answer moved an active quiz on to its second question, whose correct
\* option differs from the first one's
C35_Witness ==
    /\ quiz_state.active
    /\ quiz_ret.op = "answer_question"
    /\ quiz_state.current_index = 2
    /\ quiz_state.questions_list[1].correct_option
          # quiz_state.questions_list[2].correct_option

\* A start_quiz call that returned the text of question 1
SuccessfulStart(ret) == ret.op = "start_quiz" /\ ret.kind = "question"

\* C36: in every reachable quiz state 0 <= score <= total_questions; while a
\* quiz is active score <= current_index - 1; and between two successful
\* start_quiz calls score never decreases
C36_Claim ==
    /\ [](/\ 0 <= quiz_state.score
          /\ quiz_state.score <= quiz_state.total_questions
          /\ quiz_state.active => quiz_state.score <= quiz_state.current_index - 1)
    /\ [][~SuccessfulStart(quiz_ret') => quiz_state'.score >= quiz_state.score]_vars

\* C37: a start_quiz call that does not return the text of question 1 (a
\* failure message, or a failure while selecting, normalizing or formatting)
\* leaves quiz_state exactly as it was
C37_Claim ==
    [][(quiz_ret'.op = "start_quiz" /\ quiz_ret'.kind # "question")
          => quiz_state' = quiz_state]_vars

\* The stored reply of the turn directly follows the turn's user message
ReplyFollowsMessage(tr) ==
    \E j \in 2..Len(mem[tr.uid].messages) :
        /\ mem[tr.uid].messages[j] = [role |-> "assistant", text |-> tr.response]
        /\ mem[tr.uid].messages[j - 1] = [role |-> "user", text |-> tr.msg]

====
